---------------------------- MODULE Spec2Model ----------------------------
(***************************************************************************)
(* A model of the recipe pipeline: the recipe data model and its schema    *)
(* validation (src/utils/recipe_schema.py), the lookup loader              *)
(* (src/utils/lookups_loader.py), the list normalizer                      *)
(* (src/transformers/list_normalizer.py), the step rule validator          *)
(* (src/validators/rule_validator.py), the orchestrator                    *)
(* (src/pipeline/run_pipeline.py) and the package-level behaviour of the   *)
(* writer (src/generators/excel_writer.py).                                *)
(*                                                                         *)
(* Representation of Python values.                                        *)
(*  - A str is a sequence of chunks.  A chunk is a TLA+ string that is     *)
(*    either one whitespace character (" ", "\t") or a block of text that  *)
(*    neither starts nor ends with whitespace ("g", "ES",                  *)
(*    "Weigh").  "" is <<>> and " g" is <<" ", "g">>.  str.strip() is      *)
(*    computed on the chunks; == is equality of the sequences.             *)
(*  - Optional[T] is a sequence of at most one element: None is <<>> and   *)
(*    a present value v is <<v>>.                                          *)
(*  - The labels of the source that start with CJK characters are written *)
(*    without them: "(Robot Cooker)", "(Description)", "(Weigh)",          *)
(*    "(Adapted Cooking)", and so are the sheet names and column headers   *)
(*    (also without the line break inside a header).  The code compares    *)
(*    them for equality and sorts them; the shortened labels are pairwise  *)
(*    distinct and ChunkOrder keeps the order of the full labels.          *)
(*  - A list is a sequence; a frozen dataclass is a record.                *)
(*  - An error message built with an f-string is a record of the values    *)
(*    that the f-string interpolates.                                      *)
(***************************************************************************)
EXTENDS Integers, Sequences, FiniteSets, TLC

VARIABLES
    recipes,      \* run_pipeline's argument `recipes`
    pc,           \* position of the run inside run_pipeline / the writer
    idx,          \* index (1-based) of the recipe the for loop is at
    snapshot,     \* the content of the file at snapshot_path
    lookups,      \* the local `lookups` of run_pipeline (None before line 30)
    raised,       \* the exception that ended the run (None while running)
    log,          \* the calls the run has made so far, in order
    writerCalls,  \* the argument lists write_recipes_to_template was called with
    template,     \* the template package the writer opened (None before)
    copied,       \* number of template entries the writer has copied
    outFile,      \* the file at output_path
    input,        \* argument of a directly called pure function
    result        \* what that call returned (None before the call)

vars == <<recipes, pc, idx, snapshot, lookups, raised, log, writerCalls, template,
          copied, outFile, input, result>>

-----------------------------------------------------------------------------
(* Bounds of the model.                                                    *)

\* longest batch handed to run_pipeline
MaxBatch == 2
\* longest free-text string (recipe name, step description), in chunks
MaxStrLen == 2
\* longest ingredient list and longest step list of a recipe handed directly
\* to normalize_recipe
MaxItems == 2
\* most rows of the sheet a snapshot handed directly to load_lookups varies
MaxRows == 3
\* longest step list handed directly to validate_steps
MaxSteps == 3

-----------------------------------------------------------------------------
(* Optional values and strings.                                            *)

None == <<>>
Some(v) == <<v>>
IsNone(o) == o = <<>>
Val(o) == o[1]

\* str.isspace for one chunk
IsSpace(c) == c \in {" ", "\t"}

RECURSIVE LStrip(_)
LStrip(s) ==
    IF s # <<>> /\ IsSpace(Head(s)) THEN LStrip(Tail(s)) ELSE s

RECURSIVE RStrip(_)
RStrip(s) ==
    IF s # <<>> /\ IsSpace(s[Len(s)])
    THEN RStrip(SubSeq(s, 1, Len(s) - 1))
    ELSE s

\* str.strip(): leading and trailing whitespace removed
Strip(s) == RStrip(LStrip(s))

\* Python truthiness of a str / of a list
Truthy(s) == s # <<>>

\* all strings of at most n chunks over the chunk set A
StringsUpTo(A, n) == UNION {[1..k -> A] : k \in 0..n}

-----------------------------------------------------------------------------
(* src/utils/recipe_schema.py: constants and the data model.               *)

LANGUAGE_ES == <<"ES">>
RECIPE_TYPE_ROBOT_COOKER == <<"(Robot Cooker)">>

RecipeMeta(recipe_no, language, recipe_type, name, servings) ==
    [recipe_no |-> recipe_no, language |-> language,
     recipe_type |-> recipe_type, name |-> name, servings |-> servings]

Ingredient(no, qty, unit, name) ==
    [no |-> no, qty |-> qty, unit |-> unit, name |-> name]

Step(no, mode, description, temperature, speed, direction, minutes, seconds) ==
    [no |-> no, mode |-> mode, description |-> description,
     temperature |-> temperature, speed |-> speed, direction |-> direction,
     minutes |-> minutes, seconds |-> seconds]

Recipe(meta, ingredients, steps) ==
    [meta |-> meta, ingredients |-> ingredients, steps |-> steps]

\* the error messages of validate_recipe
ERR_LANGUAGE == "language must be ES"
ERR_RECIPE_TYPE == "recipe_type must be (Robot Cooker)"
ERR_RECIPE_NO == "recipe_no must be positive"
ERR_SERVINGS == "servings must be positive"
ERR_NAME == "name must be non-empty"
ERR_INGREDIENTS == "ingredients cannot be empty"
ERR_STEPS == "steps cannot be empty"

\* `if cond: errors.append(msg)` as the list that is appended
AppendIf(cond, msg) == IF cond THEN <<msg>> ELSE <<>>

\* A plausible slip: the checks are chained with elif, so only the first
\* violated one is reported.
validate_recipe_shortcircuit(recipe) ==
    IF recipe.meta.language # LANGUAGE_ES THEN <<ERR_LANGUAGE>>
    ELSE IF recipe.meta.recipe_type # RECIPE_TYPE_ROBOT_COOKER
         THEN <<ERR_RECIPE_TYPE>>
    ELSE IF recipe.meta.recipe_no <= 0 THEN <<ERR_RECIPE_NO>>
    ELSE IF recipe.meta.servings <= 0 THEN <<ERR_SERVINGS>>
    ELSE IF ~Truthy(Strip(recipe.meta.name)) THEN <<ERR_NAME>>
    ELSE IF ~Truthy(recipe.ingredients) THEN <<ERR_INGREDIENTS>>
    ELSE IF ~Truthy(recipe.steps) THEN <<ERR_STEPS>>
    ELSE <<>>

validate_recipe(recipe) ==
       AppendIf(recipe.meta.language # LANGUAGE_ES, ERR_LANGUAGE)
    \o AppendIf(recipe.meta.recipe_type # RECIPE_TYPE_ROBOT_COOKER,
                ERR_RECIPE_TYPE)
    \o AppendIf(recipe.meta.recipe_no <= 0, ERR_RECIPE_NO)
    \o AppendIf(recipe.meta.servings <= 0, ERR_SERVINGS)
    \o AppendIf(~Truthy(Strip(recipe.meta.name)), ERR_NAME)
    \o AppendIf(~Truthy(recipe.ingredients), ERR_INGREDIENTS)
    \o AppendIf(~Truthy(recipe.steps), ERR_STEPS)

-----------------------------------------------------------------------------
(* src/validators/rule_validator.py                                        *)

MODE_DESCRIPTION == <<"(Description)">>
MODE_WEIGH == <<"(Weigh)">>
MODE_ADAPTED == <<"(Adapted Cooking)">>

\* RuleError(f"step {step.no}: <rule> for {step.mode}") and, for the last
\* branch, RuleError(f"step {step.no}: unsupported working mode {step.mode}")
RuleError(step, rule) == [step |-> step.no, rule |-> rule, mode |-> step.mode]

RULE_DESCRIPTION_REQUIRED == "description required"
RULE_CONTROLS_EMPTY == "controls must be empty"
RULE_DESCRIPTION_EMPTY == "description should be empty"
RULE_TIME_REQUIRED == "time required"
RULE_SPEED_REQUIRED == "speed required"
RULE_UNSUPPORTED == "unsupported working mode"

\* A plausible slip: truthiness instead of `is not None`, so that 0 and ""
\* count as unset.
has_controls_truthy(step) ==
    \/ (~IsNone(step.temperature) /\ Val(step.temperature) # 0)
    \/ (~IsNone(step.speed) /\ Val(step.speed) # 0)
    \/ (~IsNone(step.direction) /\ Truthy(Val(step.direction)))
    \/ (~IsNone(step.minutes) /\ Val(step.minutes) # 0)
    \/ (~IsNone(step.seconds) /\ Val(step.seconds) # 0)

has_controls(step) ==
    \/ ~IsNone(step.temperature)
    \/ ~IsNone(step.speed)
    \/ ~IsNone(step.direction)
    \/ ~IsNone(step.minutes)
    \/ ~IsNone(step.seconds)

\* `step.description and step.description.strip()` as a truth value
DescriptionNonBlank(step) ==
    /\ ~IsNone(step.description)
    /\ Truthy(Val(step.description))
    /\ Truthy(Strip(Val(step.description)))

\* A plausible slip: `or` for `and` in the time check, so that both minutes
\* and seconds are required.
StepErrors_time_needs_both(step) ==
    IF step.mode \in {MODE_DESCRIPTION, MODE_WEIGH}
    THEN    AppendIf(~DescriptionNonBlank(step),
                     RuleError(step, RULE_DESCRIPTION_REQUIRED))
         \o AppendIf(has_controls(step),
                     RuleError(step, RULE_CONTROLS_EMPTY))
    ELSE IF step.mode = MODE_ADAPTED
    THEN    AppendIf(DescriptionNonBlank(step),
                     RuleError(step, RULE_DESCRIPTION_EMPTY))
         \o AppendIf(IsNone(step.minutes) \/ IsNone(step.seconds),
                     RuleError(step, RULE_TIME_REQUIRED))
         \o AppendIf(IsNone(step.speed),
                     RuleError(step, RULE_SPEED_REQUIRED))
    ELSE <<RuleError(step, RULE_UNSUPPORTED)>>

\* A plausible slip: the mode is compared after strip(), so that a known
\* label with surrounding whitespace is taken for the known mode.
StepErrors_stripped_mode(step) ==
    IF Strip(step.mode) \in {MODE_DESCRIPTION, MODE_WEIGH}
    THEN    AppendIf(~DescriptionNonBlank(step),
                     RuleError(step, RULE_DESCRIPTION_REQUIRED))
         \o AppendIf(has_controls(step),
                     RuleError(step, RULE_CONTROLS_EMPTY))
    ELSE IF Strip(step.mode) = MODE_ADAPTED
    THEN    AppendIf(DescriptionNonBlank(step),
                     RuleError(step, RULE_DESCRIPTION_EMPTY))
         \o AppendIf(IsNone(step.minutes) /\ IsNone(step.seconds),
                     RuleError(step, RULE_TIME_REQUIRED))
         \o AppendIf(IsNone(step.speed),
                     RuleError(step, RULE_SPEED_REQUIRED))
    ELSE <<RuleError(step, RULE_UNSUPPORTED)>>

\* the body of the for loop of validate_steps: the errors one step appends
StepErrors(step) ==
    IF step.mode \in {MODE_DESCRIPTION, MODE_WEIGH}
    THEN    AppendIf(~DescriptionNonBlank(step),
                     RuleError(step, RULE_DESCRIPTION_REQUIRED))
         \o AppendIf(has_controls(step),
                     RuleError(step, RULE_CONTROLS_EMPTY))
    ELSE IF step.mode = MODE_ADAPTED
    THEN    AppendIf(DescriptionNonBlank(step),
                     RuleError(step, RULE_DESCRIPTION_EMPTY))
         \o AppendIf(IsNone(step.minutes) /\ IsNone(step.seconds),
                     RuleError(step, RULE_TIME_REQUIRED))
         \o AppendIf(IsNone(step.speed),
                     RuleError(step, RULE_SPEED_REQUIRED))
    ELSE <<RuleError(step, RULE_UNSUPPORTED)>>

\* A plausible slip: a `break` after the first step that has errors.
RECURSIVE validate_steps_first_failing(_)
validate_steps_first_failing(steps) ==
    IF steps = <<>> THEN <<>>
    ELSE IF StepErrors(Head(steps)) # <<>> THEN StepErrors(Head(steps))
    ELSE validate_steps_first_failing(Tail(steps))

RECURSIVE validate_steps(_)
validate_steps(steps) ==
    IF steps = <<>> THEN <<>>
    ELSE StepErrors(Head(steps)) \o validate_steps(Tail(steps))

-----------------------------------------------------------------------------
(* src/utils/lookups_loader.py                                             *)
(*                                                                         *)
(* A snapshot (the dict load_snapshot returns) is a function from the      *)
(* sheet names it holds to the sheet's rows; a row is a function from the  *)
(* headers it holds to Optional[str].                                      *)

UNITS_SHEET == "Unit For Ingredients"
UNITS_HEADER == "*Unit Name"
ACCESSORIES_SHEET == "Accessories List"
ACCESSORIES_HEADER == "*Accessory Name"
WORKING_MODES_SHEET == "Working Mode List"
WORKING_MODES_HEADER == "Name of Working mode"
CATEGORIES_SHEET == "Category List"
CATEGORIES_HEADER == "*Category Name"
LABELS_SHEET == "Label List"
LABELS_HEADER == "*Label Name"

LookupTables(units, accessories, working_modes, categories, labels) ==
    [units |-> units, accessories |-> accessories,
     working_modes |-> working_modes, categories |-> categories,
     labels |-> labels]

\* dict.get(key, default)
Get(d, key, default) == IF key \in DOMAIN d THEN d[key] ELSE default

\* the elements of a list
ToSet(list) == {list[i] : i \in DOMAIN list}

\* A plausible slip: the values that survive the filter are kept as they
\* are, padding included.
RECURSIVE strip_empty_keep_padding(_)
strip_empty_keep_padding(values) ==
    IF values = <<>> THEN <<>>
    ELSE LET value == Head(values)
             keep == /\ ~IsNone(value)
                     /\ Truthy(Val(value))
                     /\ Truthy(Strip(Val(value)))
         IN  (IF keep THEN <<Val(value)>> ELSE <<>>)
             \o strip_empty_keep_padding(Tail(values))

\* [value.strip() for value in values if value and value.strip()]
RECURSIVE strip_empty(_)
strip_empty(values) ==
    IF values = <<>> THEN <<>>
    ELSE LET value == Head(values)
             keep == /\ ~IsNone(value)
                     /\ Truthy(Val(value))
                     /\ Truthy(Strip(Val(value)))
         IN  (IF keep THEN <<Strip(Val(value))>> ELSE <<>>)
             \o strip_empty(Tail(values))

\* _strip_empty(row.get(header) for row in rows)
extract_column(rows, header) ==
    strip_empty([i \in DOMAIN rows |-> Get(rows[i], header, None)])

\* The chunks of the model in the order of Python's str comparison (code
\* points of the source's literal text: control characters, space, upper
\* case, lower case, then the CJK-initial labels by their first character:
\* U+63CF (Description), U+6C64 (Robot Cooker), U+79F0 (Weigh), U+81EA
\* (Adapted Cooking)).  No chunk is a
\* prefix of another, so comparing two strings chunk by chunk gives the
\* order of the strings.
ChunkOrder ==
    <<"\t", " ", "Cuchilla", "EN", "ES", "INVALID", "Knead", "R", "a", "cup",
      "g", "ml", "oz", "(Description)", "(Robot Cooker)", "(Weigh)",
      "(Adapted Cooking)">>

ChunkRank(c) == CHOOSE i \in DOMAIN ChunkOrder : ChunkOrder[i] = c

\* a < b for two str
RECURSIVE StrLess(_, _)
StrLess(a, b) ==
    IF b = <<>> THEN FALSE
    ELSE IF a = <<>> THEN TRUE
    ELSE IF Head(a) = Head(b) THEN StrLess(Tail(a), Tail(b))
    ELSE ChunkRank(Head(a)) < ChunkRank(Head(b))

\* sorted(S) for a set of str
RECURSIVE SortedList(_)
SortedList(S) ==
    IF S = {} THEN <<>>
    ELSE LET least == CHOOSE x \in S : \A y \in S \ {x} : StrLess(x, y)
         IN  <<least>> \o SortedList(S \ {least})

\* sorted(set(values))
unique_sorted(values) == SortedList(ToSet(values))

load_lookups(snap) ==
    LET units == extract_column(Get(snap, UNITS_SHEET, <<>>),
                                UNITS_HEADER)
        accessories == extract_column(Get(snap, ACCESSORIES_SHEET, <<>>),
                                      ACCESSORIES_HEADER)
        working_modes ==
            extract_column(Get(snap, WORKING_MODES_SHEET, <<>>),
                           WORKING_MODES_HEADER)
        categories == extract_column(Get(snap, CATEGORIES_SHEET, <<>>),
                                     CATEGORIES_HEADER)
        labels == extract_column(Get(snap, LABELS_SHEET, <<>>),
                                 LABELS_HEADER)
    IN  LookupTables(unique_sorted(units), unique_sorted(accessories),
                     unique_sorted(working_modes), unique_sorted(categories),
                     unique_sorted(labels))

-----------------------------------------------------------------------------
(* src/transformers/list_normalizer.py                                     *)

\* A plausible slip: the closed set of the normalizer is extended by a mode
\* that the rule validator has no branch for.
ALLOWED_MODES_with_knead ==
    {<<"(Description)">>, <<"(Weigh)">>, <<"(Adapted Cooking)">>, <<"Knead">>}

ALLOWED_MODES == {<<"(Description)">>, <<"(Weigh)">>, <<"(Adapted Cooking)">>}

\* NormalizationError(f"{field} value '{value}' is not in lookup list")
NormalizationError(field, value) == [field |-> field, value |-> value]

\* A plausible slip: an empty lookup list is taken to mean "no constraint".
validate_membership_open(value, allowed, field) ==
    IF allowed # {} /\ value \notin allowed
    THEN <<NormalizationError(field, value)>>
    ELSE <<>>

\* A plausible slip: the value is stripped before it is looked up.
validate_membership_stripped(value, allowed, field) ==
    IF Strip(value) \notin allowed THEN <<NormalizationError(field, value)>>
    ELSE <<>>

\* `allowed` is the set of the elements of the list or set the code passes
validate_membership(value, allowed, field) ==
    IF value \notin allowed THEN <<NormalizationError(field, value)>>
    ELSE <<>>

\* A plausible slip: the unit errors are collected in a set, so a unit that
\* several ingredients carry is reported once (at its last occurrence).
RECURSIVE normalize_ingredients_merged(_, _)
normalize_ingredients_merged(ingredients, lkp) ==
    IF ingredients = <<>> THEN <<>>
    ELSE (IF \E i \in DOMAIN Tail(ingredients) :
                Tail(ingredients)[i].unit = Head(ingredients).unit
          THEN <<>>
          ELSE validate_membership(Head(ingredients).unit, ToSet(lkp.units),
                                   "unit"))
         \o normalize_ingredients_merged(Tail(ingredients), lkp)

RECURSIVE normalize_ingredients(_, _)
normalize_ingredients(ingredients, lkp) ==
    IF ingredients = <<>> THEN <<>>
    ELSE validate_membership(Head(ingredients).unit, ToSet(lkp.units), "unit")
         \o normalize_ingredients(Tail(ingredients), lkp)

RECURSIVE normalize_steps_in(_, _)
normalize_steps_in(steps, allowed_modes) ==
    IF steps = <<>> THEN <<>>
    ELSE validate_membership(Head(steps).mode, allowed_modes, "working_mode")
         \o normalize_steps_in(Tail(steps), allowed_modes)

\* A plausible slip: the lookup list alone decides, the intersection with
\* ALLOWED_MODES is left out.
normalize_steps_lookup_only(steps, lkp) ==
    normalize_steps_in(steps, ToSet(lkp.working_modes))

normalize_steps(steps, lkp) ==
    normalize_steps_in(steps, ToSet(lkp.working_modes) \cap ALLOWED_MODES)

\* A plausible slip: the loop over the accessories returns at the first
\* one that is rejected.
RECURSIVE normalize_accessories_first_only(_, _)
normalize_accessories_first_only(accessories, lkp) ==
    IF accessories = <<>> THEN <<>>
    ELSE IF Head(accessories) \notin ToSet(lkp.accessories)
    THEN <<NormalizationError("accessory", Head(accessories))>>
    ELSE normalize_accessories_first_only(Tail(accessories), lkp)

RECURSIVE normalize_accessories(_, _)
normalize_accessories(accessories, lkp) ==
    IF accessories = <<>> THEN <<>>
    ELSE validate_membership(Head(accessories), ToSet(lkp.accessories),
                             "accessory")
         \o normalize_accessories(Tail(accessories), lkp)

normalize_recipe(recipe, lkp, accessories) ==
       normalize_ingredients(recipe.ingredients, lkp)
    \o normalize_steps(recipe.steps, lkp)
    \o normalize_accessories(accessories, lkp)

-----------------------------------------------------------------------------
(* src/generators/excel_writer.py, at the level of the package: which      *)
(* entries the template holds, which sheet names its workbook maps to      *)
(* which entry, and which entries zipfile can read (an entry whose stored  *)
(* CRC does not match makes z.read raise BadZipFile).                      *)

RECIPE_LIST_SHEET == "Recipe List"
INGREDIENTS_SHEET == "Ingredients List"
STEPS_SHEET == "Cooking Steps"

\* the sheets write_recipes_to_template fills, in the order of its loop
TargetSheets == <<RECIPE_LIST_SHEET, INGREDIENTS_SHEET, STEPS_SHEET>>

\* z.namelist()
namelist(t) == [i \in DOMAIN t.entries |-> t.entries[i].filename]

\* z.getinfo(name) for a name the package holds: zipfile keeps one entry per
\* name, the last of that name in the package
getinfo(t, name) ==
    t.entries[CHOOSE i \in DOMAIN t.entries :
                 /\ t.entries[i].filename = name
                 /\ \A j \in DOMAIN t.entries :
                       t.entries[j].filename = name => j <= i]

\* z.read(name) for the names of `names` in turn: None when every one is
\* in the package and can be read, else the exception of the first that is
\* not (KeyError for a name the package does not hold)
RECURSIVE ReadFailure(_, _)
ReadFailure(t, names) ==
    IF names = <<>> THEN None
    ELSE IF Head(names) \notin ToSet(namelist(t))
    THEN Some([kind |-> "KeyError", stage |-> "read",
               errors |-> <<Head(names)>>])
    ELSE IF ~getinfo(t, Head(names)).readable
    THEN Some([kind |-> "BadZipFile", stage |-> "read",
               errors |-> <<Head(names)>>])
    ELSE ReadFailure(t, Tail(names))

\* lines 284-285: load_shared_strings reads the shared strings when the
\* package has them, get_sheet_paths reads the workbook part and its
\* relationships
OpenFailure(t) ==
    ReadFailure(t,
        (IF "xl/sharedStrings.xml" \in ToSet(namelist(t))
         THEN <<"xl/sharedStrings.xml">> ELSE <<>>)
        \o <<"xl/workbook.xml", "xl/_rels/workbook.xml.rels">>)

\* the first target sheet, in loop order from position k, that stops the
\* loop of lines 290-302: None when every sheet is found and read, else the
\* exception raised
RECURSIVE PrepareFailure(_, _)
PrepareFailure(t, k) ==
    IF k > Len(TargetSheets) THEN None
    ELSE LET name == TargetSheets[k]
         IN  IF name \notin DOMAIN t.sheet_map
             THEN Some([kind |-> "ValueError", stage |-> "Missing sheet",
                        errors |-> <<name>>])
             ELSE IF ~IsNone(ReadFailure(t, <<t.sheet_map[name]>>))
             THEN ReadFailure(t, <<t.sheet_map[name]>>)
             ELSE PrepareFailure(t, k + 1)

\* lines 283-302 as a whole: the exception that ends them, or None
WriterFailure(t) ==
    IF ~IsNone(OpenFailure(t)) THEN OpenFailure(t) ELSE PrepareFailure(t, 1)

\* the keys of `replacements` once the loop has ended normally
Replacements(t) == {t.sheet_map[TargetSheets[k]] : k \in DOMAIN TargetSheets}

NoFile == [exists |-> FALSE, closed |-> FALSE, entries |-> <<>>]

-----------------------------------------------------------------------------
(* src/generators/excel_writer.py, the sheets.                             *)
(*                                                                         *)
(* The content of a worksheet part is its element tree as far as the       *)
(* writer looks at it: [sheet_data |-> Optional list of rows]; a row is    *)
(* [r |-> Optional str, cells |-> list of cells]; a cell is                *)
(* [r |-> str, t |-> Optional str, v |-> Optional str, is_t |-> Optional   *)
(* str] (the attributes r and t, the text of <v>, the text of <is><t>; an   *)
(* element without text has the text <<>>).                                *)
(* A value of a row dict (None, an int or a str) is a record               *)
(* [kind, int, str].  A header dict is the list of its items in insertion  *)
(* order.  The degree sign and the accented letter of the source's Spanish *)
(* literals are written "deg" and "a".                                     *)

PyNone == [kind |-> "none", int |-> 0, str |-> <<>>]
PyInt(n) == [kind |-> "int", int |-> n, str |-> <<>>]
PyStr(str) == [kind |-> "str", int |-> 0, str |-> str]
OfOptInt(o) == IF IsNone(o) THEN PyNone ELSE PyInt(Val(o))
OfOptStr(o) == IF IsNone(o) THEN PyNone ELSE PyStr(Val(o))

\* str(n) for an int: its decimal digits
DigitChars == <<"0", "1", "2", "3", "4", "5", "6", "7", "8", "9">>
RECURSIVE NatStr(_)
NatStr(n) ==
    IF n < 10 THEN <<DigitChars[n + 1]>>
    ELSE NatStr(n \div 10) \o <<DigitChars[(n % 10) + 1]>>
IntStr(n) == IF n < 0 THEN <<"-">> \o NatStr(-n) ELSE NatStr(n)

Item(header, key) == [header |-> <<header>>, key |-> key]

RECIPE_LIST_HEADERS ==
    <<Item("*Recipe NO", "recipe_no"),
      Item("Language", "language"),
      Item("*Recipe Type", "recipe_type"),
      Item("*Recipe Name", "name"),
      Item("*Recipe Category(Multiple Choice)", "category"),
      Item("*Servings", "servings"),
      Item("*Prepare Time/Hour", "prep_hours"),
      Item("*Prepare Time/Minutes", "prep_minutes"),
      Item("*Cooking Time/Hour", "cook_hours"),
      Item("*Cooking Time/Minutes", "cook_minutes"),
      Item("*Rest Time/Hour", "rest_hours"),
      Item("*Rest Time/Minutes", "rest_minutes"),
      Item("*Difficulty Level", "difficulty"),
      Item("*Accessory No/ID(Choose multiply )", "accessory_no"),
      Item("Used Accessories", "accessory_name"),
      Item("Overview For Cooking Steps", "overview")>>

INGREDIENT_HEADERS ==
    <<Item("*Recipe NO", "recipe_no"),
      Item("Language", "language"),
      Item("*Recipe Type", "recipe_type"),
      Item("*Recipe Name", "name"),
      Item("*Ingredients No", "ingredient_no"),
      Item("*Ingredients/qty", "qty"),
      Item("*Ingredients/Unit", "unit"),
      Item("*Ingredient/Name", "ingredient_name")>>

STEP_HEADERS ==
    <<Item("*Recipe NO", "recipe_no"),
      Item("Language", "language"),
      Item("*Recipe Type", "recipe_type"),
      Item("*Recipe Name", "name"),
      Item("*Cooking Step NO", "step_no"),
      Item("*Working Mode", "mode"),
      Item("Description", "description"),
      Item("Working Temperature", "temperature"),
      Item("Rotation Direction (R/L)", "direction"),
      Item("Rotation Speed (0-12)", "speed"),
      Item("Working Time/Mins", "minutes"),
      Item("Working Time/ Seconds", "seconds")>>

DEFAULT_CATEGORY == <<"Platillos", " ", "Mexicanos">>
DEFAULT_PREP_HOURS == 0
DEFAULT_PREP_MINUTES == 0
DEFAULT_COOK_HOURS == 0
DEFAULT_COOK_MINUTES == 0
DEFAULT_REST_HOURS == 0
DEFAULT_REST_MINUTES == 0
DEFAULT_DIFFICULTY == <<"facil">>
DEFAULT_ACCESSORY_NO == 5
DEFAULT_ACCESSORY_NAME == <<"Cuchilla">>

\* "".join(ch for ch in ref if ch.isalpha()), on a reference whose
\* characters are letters A-Z and digits
IsAlpha(ch) == ch \notin ToSet(DigitChars) /\ ch # "-"
ColumnOf(ref) == SelectSeq(ref, IsAlpha)

\* element.text of a child element looked up with find, None when there is
\* no such child: an element parsed without text has the text None
ElementText(el) == IF IsNone(el) \/ Val(el) = <<>> THEN None ELSE el

\* int(text) on a text of one-character chunks: whitespace around it is
\* dropped, a sign may lead, the digits may be separated by single
\* underscores and may start with zeros.  None stands for ValueError.
int_of(text) ==
    LET s == Strip(text)
        signed == s # <<>> /\ s[1] \in {"+", "-"}
        body == IF signed THEN Tail(s) ELSE s
        IsDigit(ch) == ch \in ToSet(DigitChars)
        wellformed ==
            /\ body # <<>>
            /\ IsDigit(body[1])
            /\ IsDigit(body[Len(body)])
            /\ \A i \in DOMAIN body :
                  \/ IsDigit(body[i])
                  \/ body[i] = "_" /\ IsDigit(body[i + 1])
        RECURSIVE DecimalValue(_)
        DecimalValue(digits) ==
            IF digits = <<>> THEN 0
            ELSE 10 * DecimalValue(SubSeq(digits, 1, Len(digits) - 1))
                 + ((CHOOSE k \in DOMAIN DigitChars :
                        DigitChars[k] = digits[Len(digits)]) - 1)
    IN  IF ~wellformed THEN None
        ELSE Some((IF signed /\ s[1] = "-" THEN -1 ELSE 1)
                  * DecimalValue(SelectSeq(body, IsDigit)))

\* cell_value.  With t = "s" the text of <v> is an index into the shared
\* strings, taken with int() and used as a list index: a negative index
\* counts from the end, ValueError and IndexError give None.
cell_value(cell, shared) ==
    IF cell.t = Some("s")
    THEN IF IsNone(ElementText(cell.v)) THEN None
         ELSE LET n == int_of(Val(cell.v))
              IN  IF IsNone(n) THEN None
                  ELSE IF Val(n) >= Len(shared) \/ Val(n) < -Len(shared)
                  THEN None
                  ELSE IF Val(n) < 0
                  THEN Some(shared[Len(shared) + Val(n) + 1])
                  ELSE Some(shared[Val(n) + 1])
    ELSE IF ~IsNone(ElementText(cell.is_t)) THEN cell.is_t
    ELSE ElementText(cell.v)

\* sheet.find("main:sheetData/main:row[@r='1']"): the first such row, as a
\* list of at most one row
HeaderRow(sheet) ==
    IF IsNone(sheet.sheet_data) THEN None
    ELSE LET ones == SelectSeq(Val(sheet.sheet_data),
                               LAMBDA row : row.r = Some(<<"1">>))
         IN  IF ones = <<>> THEN None ELSE Some(Head(ones))

\* the loop of header_map over the cells of the header row: a later cell
\* with the same text overrides an earlier one
RECURSIVE HeadersOf(_, _)
HeadersOf(cells, shared) ==
    IF cells = <<>> THEN [h \in {} |-> <<>>]
    ELSE LET before == HeadersOf(SubSeq(cells, 1, Len(cells) - 1), shared)
             cell == cells[Len(cells)]
             value == cell_value(cell, shared)
         IN  IF ~IsNone(value) /\ Truthy(Val(value))
             THEN [h \in DOMAIN before \cup {Val(value)} |->
                      IF h = Val(value) THEN ColumnOf(cell.r) ELSE before[h]]
             ELSE before

header_map(sheet, shared) ==
    IF IsNone(HeaderRow(sheet)) THEN [h \in {} |-> <<>>]
    ELSE HeadersOf(Val(HeaderRow(sheet)).cells, shared)

\* clear_data_rows leaving every row where it is
clear_data_rows_keep_rows(sheet) == sheet

clear_data_rows(sheet) ==
    IF IsNone(sheet.sheet_data) THEN sheet
    ELSE [sheet EXCEPT !.sheet_data =
             Some(SelectSeq(Val(sheet.sheet_data),
                            LAMBDA row : row.r = Some(<<"1">>)))]

make_cell(col, row_num, value) ==
    LET ref == col \o IntStr(row_num)
    IN  IF value.kind = "none"
        THEN [r |-> ref, t |-> None, v |-> None, is_t |-> None]
        ELSE IF value.kind = "int"
        THEN [r |-> ref, t |-> None, v |-> Some(IntStr(value.int)),
              is_t |-> None]
        ELSE [r |-> ref, t |-> Some("inlineStr"), v |-> None,
              is_t |-> Some(value.str)]

\* the cells of one appended row: the inner loop of append_rows from the
\* k-th item of `headers` on
RECURSIVE RowCells(_, _, _, _, _)
RowCells(header_to_col, row_data, headers, row_num, k) ==
    IF k > Len(headers) THEN <<>>
    ELSE LET header == headers[k].header
             key == headers[k].key
             col == Get(header_to_col, header, <<>>)
             value == Get(row_data, key, PyNone)
         IN  (IF ~Truthy(col) \/ value.kind = "none" THEN <<>>
              ELSE <<make_cell(col, row_num, value)>>)
             \o RowCells(header_to_col, row_data, headers, row_num, k + 1)

append_rows(sheet, header_to_col, rows, headers) ==
    LET sheet_data == IF IsNone(sheet.sheet_data) THEN <<>>
                      ELSE Val(sheet.sheet_data)
        start_row == 2
        appended ==
            [i \in DOMAIN rows |->
                [r |-> Some(IntStr(start_row + (i - 1))),
                 cells |-> RowCells(header_to_col, rows[i], headers,
                                    start_row + (i - 1), 1)]]
    IN  [sheet EXCEPT !.sheet_data = Some(sheet_data \o appended)]

\* sep.join(list) for a list of str
RECURSIVE Join(_, _)
Join(sep, list) ==
    IF list = <<>> THEN <<>>
    ELSE IF Len(list) = 1 THEN list[1]
    ELSE list[1] \o sep \o Join(sep, Tail(list))

\* the sentences build_overview appends for the steps, in order
RECURSIVE OverviewSentences(_)
OverviewSentences(steps) ==
    IF steps = <<>> THEN <<>>
    ELSE LET step == Head(steps)
             parts ==
                 (IF ~IsNone(step.minutes)
                  THEN <<IntStr(Val(step.minutes)) \o <<" ", "minutos">>>>
                  ELSE <<>>)
                 \o (IF ~IsNone(step.seconds) /\ Val(step.seconds) # 0
                     THEN <<IntStr(Val(step.seconds)) \o <<" ", "segundos">>>>
                     ELSE <<>>)
             time_text == Join(<<" ">>, parts)
             temp_text == IF ~IsNone(step.temperature)
                          THEN Some(IntStr(Val(step.temperature)) \o <<"degC">>)
                          ELSE None
             speed_text == IF ~IsNone(step.speed)
                           THEN Some(<<"velocidad", " ">>
                                     \o IntStr(Val(step.speed)))
                           ELSE None
             details ==
                 Join(<<",", " ">>,
                      (IF Truthy(time_text) THEN <<time_text>> ELSE <<>>)
                      \o temp_text \o speed_text)
         IN  (IF ~IsNone(step.description) /\ Truthy(Val(step.description))
                 /\ Truthy(Strip(Val(step.description)))
              THEN <<Strip(Val(step.description))>>
              ELSE IF /\ IsNone(step.temperature) /\ IsNone(step.speed)
                      /\ IsNone(step.minutes) /\ IsNone(step.seconds)
              THEN <<>>
              ELSE IF Truthy(details)
              THEN <<<<"Cocinamos", " ">> \o details \o <<".">>>>
              ELSE <<>>)
             \o OverviewSentences(Tail(steps))

build_overview(steps) ==
    Join(<<" ">>,
         <<<<"Ponemos en el vaso el accesorio \"">> \o DEFAULT_ACCESSORY_NAME
           \o <<"\".">>>>
         \o OverviewSentences(steps))

\* A plausible slip: the rows are collected in a dict keyed by recipe_no, so
\* of several recipes with one number only the last is written.
RECURSIVE recipe_list_rows_by_number(_)
recipe_list_rows_by_number(rs) ==
    IF rs = <<>> THEN <<>>
    ELSE (IF \E i \in DOMAIN Tail(rs) :
                Tail(rs)[i].meta.recipe_no = Head(rs).meta.recipe_no
          THEN <<>>
          ELSE <<[recipe_no |-> PyInt(Head(rs).meta.recipe_no),
                  language |-> PyStr(Head(rs).meta.language),
                  recipe_type |-> PyStr(Head(rs).meta.recipe_type),
                  name |-> PyStr(Head(rs).meta.name),
                  category |-> PyStr(DEFAULT_CATEGORY),
                  servings |-> PyInt(Head(rs).meta.servings),
                  prep_hours |-> PyInt(DEFAULT_PREP_HOURS),
                  prep_minutes |-> PyInt(DEFAULT_PREP_MINUTES),
                  cook_hours |-> PyInt(DEFAULT_COOK_HOURS),
                  cook_minutes |-> PyInt(DEFAULT_COOK_MINUTES),
                  rest_hours |-> PyInt(DEFAULT_REST_HOURS),
                  rest_minutes |-> PyInt(DEFAULT_REST_MINUTES),
                  difficulty |-> PyStr(DEFAULT_DIFFICULTY),
                  accessory_no |-> PyInt(DEFAULT_ACCESSORY_NO),
                  accessory_name |-> PyStr(DEFAULT_ACCESSORY_NAME),
                  overview |-> PyStr(build_overview(Head(rs).steps))]>>)
         \o recipe_list_rows_by_number(Tail(rs))

recipe_list_rows(rs) ==
    [i \in DOMAIN rs |->
        [recipe_no |-> PyInt(rs[i].meta.recipe_no),
         language |-> PyStr(rs[i].meta.language),
         recipe_type |-> PyStr(rs[i].meta.recipe_type),
         name |-> PyStr(rs[i].meta.name),
         category |-> PyStr(DEFAULT_CATEGORY),
         servings |-> PyInt(rs[i].meta.servings),
         prep_hours |-> PyInt(DEFAULT_PREP_HOURS),
         prep_minutes |-> PyInt(DEFAULT_PREP_MINUTES),
         cook_hours |-> PyInt(DEFAULT_COOK_HOURS),
         cook_minutes |-> PyInt(DEFAULT_COOK_MINUTES),
         rest_hours |-> PyInt(DEFAULT_REST_HOURS),
         rest_minutes |-> PyInt(DEFAULT_REST_MINUTES),
         difficulty |-> PyStr(DEFAULT_DIFFICULTY),
         accessory_no |-> PyInt(DEFAULT_ACCESSORY_NO),
         accessory_name |-> PyStr(DEFAULT_ACCESSORY_NAME),
         overview |-> PyStr(build_overview(rs[i].steps))]]

\* the rows of one recipe's ingredients (the quantities of the model are
\* ints)
IngredientRowsOf(recipe) ==
    [k \in DOMAIN recipe.ingredients |->
        [recipe_no |-> PyInt(recipe.meta.recipe_no),
         language |-> PyStr(recipe.meta.language),
         recipe_type |-> PyStr(recipe.meta.recipe_type),
         name |-> PyStr(recipe.meta.name),
         ingredient_no |-> PyInt(recipe.ingredients[k].no),
         qty |-> PyInt(recipe.ingredients[k].qty),
         unit |-> PyStr(recipe.ingredients[k].unit),
         ingredient_name |-> PyStr(recipe.ingredients[k].name)]]

RECURSIVE ingredient_rows(_)
ingredient_rows(rs) ==
    IF rs = <<>> THEN <<>>
    ELSE IngredientRowsOf(Head(rs)) \o ingredient_rows(Tail(rs))

step_row(recipe, step) ==
    [recipe_no |-> PyInt(recipe.meta.recipe_no),
     language |-> PyStr(recipe.meta.language),
     recipe_type |-> PyStr(recipe.meta.recipe_type),
     name |-> PyStr(recipe.meta.name),
     step_no |-> PyInt(step.no),
     mode |-> PyStr(step.mode),
     description |-> OfOptStr(step.description),
     temperature |-> OfOptInt(step.temperature),
     direction |-> OfOptStr(step.direction),
     speed |-> OfOptInt(step.speed),
     minutes |-> OfOptInt(step.minutes),
     seconds |-> OfOptInt(step.seconds)]

RECURSIVE step_rows(_)
step_rows(rs) ==
    IF rs = <<>> THEN <<>>
    ELSE [k \in DOMAIN Head(rs).steps |-> step_row(Head(rs), Head(rs).steps[k])]
         \o step_rows(Tail(rs))

\* the three turns of the loop of lines 290-302
TargetHeaders == <<RECIPE_LIST_HEADERS, INGREDIENT_HEADERS, STEP_HEADERS>>
TargetRows(rs) == <<recipe_list_rows(rs), ingredient_rows(rs), step_rows(rs)>>

\* lines 298-302 for one parsed sheet
FillSheet(sheet, shared, rows, headers) ==
    append_rows(clear_data_rows(sheet), header_map(sheet, shared), rows,
                headers)

\* scripts/test_excel_writer.py has its own readers.  Its
\* load_shared_strings returns a dict keyed 0, 1, ... in the order of the
\* strings, here the list of its values; its cell_value looks the index up
\* in that dict, so an index that is no key, a negative one included, is a
\* KeyError and gives None.
script_cell_value(cell, shared) ==
    IF cell.t = Some("s")
    THEN IF IsNone(ElementText(cell.v)) THEN None
         ELSE LET n == int_of(Val(cell.v))
              IN  IF IsNone(n) THEN None
                  ELSE IF Val(n) \notin 0..(Len(shared) - 1) THEN None
                  ELSE Some(shared[Val(n) + 1])
    ELSE IF ~IsNone(ElementText(cell.is_t)) THEN cell.is_t
    ELSE ElementText(cell.v)

\* header_map of scripts/test_excel_writer.py: the loop of the writer's
\* header_map with the script's cell_value
script_header_map(sheet, shared) ==
    LET RECURSIVE Headers(_)
        Headers(cells) ==
            IF cells = <<>> THEN [h \in {} |-> <<>>]
            ELSE LET before == Headers(SubSeq(cells, 1, Len(cells) - 1))
                     cell == cells[Len(cells)]
                     value == script_cell_value(cell, shared)
                 IN  IF ~IsNone(value) /\ Truthy(Val(value))
                     THEN [h \in DOMAIN before \cup {Val(value)} |->
                              IF h = Val(value) THEN ColumnOf(cell.r)
                              ELSE before[h]]
                     ELSE before
    IN  IF IsNone(HeaderRow(sheet)) THEN [h \in {} |-> <<>>]
        ELSE Headers(Val(HeaderRow(sheet)).cells)

\* read_cell of scripts/test_excel_writer.py: the value of the cell under
\* the header `header` in the row numbered row_num; sheet.find gives the
\* first cell of that reference in document order, in any row of that
\* number
read_cell(sheet, shared, header, row_num) ==
    LET col == Get(script_header_map(sheet, shared), header, <<>>)
        rows == IF IsNone(sheet.sheet_data) THEN <<>>
                ELSE SelectSeq(Val(sheet.sheet_data),
                               LAMBDA row : row.r = Some(IntStr(row_num)))
        RECURSIVE CellsOf(_)
        CellsOf(rs) ==
            IF rs = <<>> THEN <<>> ELSE Head(rs).cells \o CellsOf(Tail(rs))
        cells == SelectSeq(CellsOf(rows),
                           LAMBDA c : c.r = col \o IntStr(row_num))
    IN  IF ~Truthy(col) \/ cells = <<>> THEN None
        ELSE script_cell_value(Head(cells), shared)

\* replacements[path] for the recipes rs: the sheet read from the template
\* entry at `path`, refilled (lines 295-302)
ReplacementContent(t, path, rs) ==
    LET k == CHOOSE j \in DOMAIN TargetSheets :
                 /\ t.sheet_map[TargetSheets[j]] = path
                 /\ \A l \in DOMAIN TargetSheets :
                       t.sheet_map[TargetSheets[l]] = path => l <= j
        entry == getinfo(t, path)
    IN  [entry.content EXCEPT !.sheet =
            Some(FillSheet(Val(entry.content.sheet), t.shared,
                           TargetRows(rs)[k], TargetHeaders[k]))]

-----------------------------------------------------------------------------
(* The inputs the runs are checked on.                                     *)

\* chunks of free text: two kinds of whitespace and a letter
TextChunks == {" ", "\t", "a"}
Texts == StringsUpTo(TextChunks, MaxStrLen)

OptInts == {None, Some(0), Some(5)}
OptDirections == {None, Some(<<>>), Some(<<"R">>)}

AnIngredient == Ingredient(1, 200, <<"g">>, <<"a">>)
AStep == Step(1, MODE_DESCRIPTION, Some(<<"a">>), None, None, None, None, None)

\* recipes for validate_recipe: every combination of the seven checked
\* fields
SchemaRecipes ==
    {Recipe(RecipeMeta(n, l, t, nm, sv), ings, sts) :
        n \in {-1, 0, 1}, l \in {LANGUAGE_ES, <<"EN">>, <<>>},
        t \in {RECIPE_TYPE_ROBOT_COOKER, <<>>}, nm \in Texts,
        sv \in {-1, 0, 1}, ings \in {<<>>, <<AnIngredient>>},
        sts \in {<<>>, <<AStep>>}}

\* steps for validate_steps: the three modes, two unknown ones (one of them
\* a known label followed by a space), and every combination of absent,
\* zero/empty and non-zero controls
RuleModes ==
    {MODE_DESCRIPTION, MODE_WEIGH, MODE_ADAPTED, <<"INVALID">>,
     <<"(Weigh)", " ">>}
RuleSteps ==
    {Step(1, m, d, t, sp, dr, mi, se) :
        m \in RuleModes, d \in {None} \cup {Some(x) : x \in Texts},
        t \in OptInts, sp \in OptInts, dr \in OptDirections,
        mi \in OptInts, se \in OptInts}

\* recipes for run_pipeline
GoodDescription ==
    Step(1, MODE_DESCRIPTION, Some(<<"a">>), None, None, None, None, None)
GoodAdapted ==
    Step(2, MODE_ADAPTED, None, Some(5), Some(5), None, Some(5), Some(0))
BlankDescriptionWithControl ==
    Step(1, MODE_DESCRIPTION, Some(<<>>), Some(5), None, None, None, None)
AdaptedNoTimeNoSpeed ==
    Step(2, MODE_ADAPTED, Some(<<"a">>), None, None, None, None, None)
KneadStep ==
    Step(1, <<"Knead">>, Some(<<"a">>), None, None, None, None, None)

\* step lists for validate_steps: every list of at most MaxSteps steps that
\* have no error, two errors of a description step, three errors of an
\* adapted step, or an unknown mode; two of them share the number 1 and two
\* the number 2
StepLists ==
    UNION {[1..n -> {GoodDescription, GoodAdapted,
                     BlankDescriptionWithControl, AdaptedNoTimeNoSpeed,
                     KneadStep}] : n \in 0..MaxSteps}

PipelineMetas ==
    {RecipeMeta(1, LANGUAGE_ES, RECIPE_TYPE_ROBOT_COOKER, <<"a">>, 2),
     RecipeMeta(2, <<"EN">>, RECIPE_TYPE_ROBOT_COOKER, <<"a">>, 0)}
PipelineIngredients ==
    {<<Ingredient(1, 200, <<"g">>, <<"a">>)>>,
     <<Ingredient(1, 200, <<"g">>, <<"a">>),
       Ingredient(2, 1, <<"cup">>, <<"a">>)>>}
PipelineSteps ==
    {<<GoodDescription, GoodAdapted>>,
     <<BlankDescriptionWithControl, AdaptedNoTimeNoSpeed>>,
     <<KneadStep>>}
AllBadRecipe ==
    Recipe(RecipeMeta(0, <<"EN">>, <<>>, <<" ">>, 0), <<>>, <<>>)
WeighRecipe ==
    Recipe(RecipeMeta(3, LANGUAGE_ES, RECIPE_TYPE_ROBOT_COOKER, <<"a">>, 4),
           <<Ingredient(1, 1, <<"ml">>, <<"a">>)>>,
           <<Step(1, MODE_WEIGH, Some(<<"a">>), None, None, None, None, None)>>)
\* a recipe that meets every check of the three stages, with an ingredient
\* of quantity 0 and one without a name; it has the recipe_no of the
\* recipes made of the first meta
ZeroQtyRecipe ==
    Recipe(RecipeMeta(1, LANGUAGE_ES, RECIPE_TYPE_ROBOT_COOKER, <<"a">>, 1),
           <<Ingredient(1, 0, <<"g">>, <<"a">>),
             Ingredient(2, 5, <<"g">>, <<>>)>>,
           <<GoodDescription>>)
RecipePool ==
    {Recipe(m, ings, sts) :
        m \in PipelineMetas, ings \in PipelineIngredients,
        sts \in PipelineSteps}
    \cup {AllBadRecipe, WeighRecipe, ZeroQtyRecipe}

\* recipe lists handed directly to write_recipes_to_template, validated or
\* not: the recipe of scripts/test_excel_writer.py in small, a recipe
\* without ingredients and steps, and the two above
GoodRecipe ==
    Recipe(RecipeMeta(1, LANGUAGE_ES, RECIPE_TYPE_ROBOT_COOKER, <<"a">>, 2),
           <<Ingredient(1, 200, <<"g">>, <<"a">>)>>,
           <<GoodDescription, GoodAdapted>>)
WriterBatches ==
    UNION {[1..n -> {GoodRecipe, AllBadRecipe, WeighRecipe, ZeroQtyRecipe}] :
              n \in 0..MaxBatch}

Batches == UNION {[1..n -> RecipePool] : n \in 0..MaxBatch}

\* snapshots: rows with padded, duplicated, blank and null values and a row
\* without the column; a mode the pipeline does not implement; a snapshot
\* without the adapted mode; a snapshot without the working-mode sheet
Cell(header, value) == [h \in {header} |-> value]
UnitRows ==
    <<Cell(UNITS_HEADER, Some(<<" ", "g">>)),
      Cell(UNITS_HEADER, Some(<<"ml">>)),
      Cell(UNITS_HEADER, None),
      Cell(UNITS_HEADER, Some(<<" ">>)),
      <<>>,
      Cell(UNITS_HEADER, Some(<<"g">>))>>
AllModeRows ==
    <<Cell(WORKING_MODES_HEADER, Some(<<"Knead">>)),
      Cell(WORKING_MODES_HEADER, Some(MODE_WEIGH)),
      Cell(WORKING_MODES_HEADER, Some(MODE_ADAPTED)),
      Cell(WORKING_MODES_HEADER, Some(MODE_DESCRIPTION))>>
Snapshots ==
    LET FullSnapshot ==
            [s \in {UNITS_SHEET, WORKING_MODES_SHEET} |->
                IF s = UNITS_SHEET THEN UnitRows ELSE AllModeRows]
        NoAdaptedSnapshot ==
            [s \in {UNITS_SHEET, WORKING_MODES_SHEET} |->
                IF s = UNITS_SHEET THEN UnitRows ELSE SubSeq(AllModeRows, 1, 2)]
        NoModesSnapshot == [s \in {UNITS_SHEET} |-> UnitRows]
    IN  {FullSnapshot, NoAdaptedSnapshot, NoModesSnapshot}

\* templates: packages with the workbook part and its relationships, the
\* three target sheets or all but one of them, and at most one entry (the
\* relationships, a target sheet or another part) that cannot be read or
\* one part (the step sheet) that the workbook names and the package does
\* not hold.  The names of the entries of a package are distinct.  The
\* content of an entry is [data |-> what the part holds besides sheetData,
\* sheet |-> the element tree of a worksheet part (None for other parts)].
\* The tidy template keeps its header texts in the shared strings and has
\* two old data rows per sheet; the odd one has no shared strings, a recipe
\* list sheet without sheetData, an ingredient sheet whose header row names
\* two columns only (one of them twice) and comes after a row without a row
\* number, and a step sheet whose header row lies between two old rows.
SheetPath(name) ==
    IF name = RECIPE_LIST_SHEET THEN "xl/worksheets/sheet1.xml"
    ELSE IF name = INGREDIENTS_SHEET THEN "xl/worksheets/sheet2.xml"
    ELSE IF name = STEPS_SHEET THEN "xl/worksheets/sheet3.xml"
    ELSE "xl/worksheets/sheet4.xml"
EntryNames ==
    <<"xl/workbook.xml", "xl/_rels/workbook.xml.rels",
      "xl/worksheets/sheet1.xml",
      "xl/worksheets/sheet2.xml", "xl/styles.xml",
      "xl/worksheets/sheet3.xml", "xl/worksheets/sheet4.xml",
      "xl/sharedStrings.xml">>

Templates ==
    LET ColumnLetters ==
            <<"A", "B", "C", "D", "E", "F", "G", "H", "I", "J", "K", "L", "M", "N",
              "O", "P">>
        NumberCell(ref, text) ==
            [r |-> ref, t |-> None, v |-> Some(text), is_t |-> None]
        InlineCell(ref, text) ==
            [r |-> ref, t |-> Some("inlineStr"), v |-> None, is_t |-> Some(text)]
        SharedCell(ref, text) ==
            [r |-> ref, t |-> Some("s"), v |-> Some(text), is_t |-> None]
        Row(r, cells) == [r |-> r, cells |-> cells]
        OldRow(n) ==
            Row(Some(IntStr(n)), <<NumberCell(<<"A">> \o IntStr(n), <<"9">>),
                                   InlineCell(<<"B">> \o IntStr(n), <<"old">>)>>)

        \* the shared strings of the tidy template: the header texts of the three
        \* sheets, each once
        TidyShared ==
            [k \in DOMAIN RECIPE_LIST_HEADERS |-> RECIPE_LIST_HEADERS[k].header]
            \o [k \in 1..4 |-> INGREDIENT_HEADERS[k + 4].header]
            \o [k \in 1..8 |-> STEP_HEADERS[k + 4].header]
        IndexOf(list, x) == (CHOOSE i \in DOMAIN list : list[i] = x) - 1
        \* the index of a shared string as the tidy template writes it: in
        \* plain decimal, but for the second string, written with a leading
        \* zero, and the last, counted from the end
        IndexText(index) ==
            IF index = 1 THEN <<"0", "1">>
            ELSE IF index = Len(TidyShared) - 1 THEN <<"-", "1">>
            ELSE NatStr(index)
        TidySheet(headers) ==
            [sheet_data |->
                Some(<<Row(Some(<<"1">>),
                           [k \in DOMAIN headers |->
                               SharedCell(<<ColumnLetters[k], "1">>,
                                          IndexText(IndexOf(TidyShared,
                                                            headers[k].header)))]),
                       OldRow(2), OldRow(3)>>)]
        OddSheet(name) ==
            IF name = RECIPE_LIST_SHEET THEN [sheet_data |-> None]
            ELSE IF name = INGREDIENTS_SHEET
            THEN [sheet_data |->
                     Some(<<Row(None, <<InlineCell(<<"A", "1">>, <<"old">>)>>),
                            Row(Some(<<"1">>),
                                <<InlineCell(<<"A", "1">>, <<"*Ingredients/Unit">>),
                                  InlineCell(<<"B", "1">>, <<"*Recipe NO">>),
                                  InlineCell(<<"C", "1">>, <<"*Recipe NO">>),
                                  SharedCell(<<"D", "1">>, <<"0">>),
                                  InlineCell(<<"E", "1">>, <<>>),
                                  InlineCell(<<>>, <<"*Ingredient/Name">>)>>),
                            OldRow(2)>>)]
            ELSE [sheet_data |->
                     Some(<<OldRow(7),
                            Row(Some(<<"1">>),
                                [k \in DOMAIN STEP_HEADERS |->
                                    InlineCell(<<ColumnLetters[k], "1">>,
                                               STEP_HEADERS[k].header)]),
                            OldRow(2)>>)]
        \* a lookup sheet of the workbook, which the writer does not fill
        LookupSheet ==
            [sheet_data |->
                Some(<<Row(Some(<<"1">>), <<InlineCell(<<"A", "1">>, <<"*Unit Name">>)>>),
                       Row(Some(<<"2">>), <<InlineCell(<<"A", "2">>, <<"g">>)>>)>>)]

        TemplateSheet(tidy, path) ==
            LET name == CHOOSE n \in ToSet(TargetSheets) \cup {UNITS_SHEET} :
                            SheetPath(n) = path
            IN  IF name = UNITS_SHEET THEN LookupSheet
                ELSE IF ~tidy THEN OddSheet(name)
                ELSE TidySheet(TargetHeaders[CHOOSE k \in DOMAIN TargetSheets :
                                                TargetSheets[k] = name])
        TemplateContent(tidy, filename) ==
            IF filename \in {SheetPath(n) : n \in ToSet(TargetSheets) \cup {UNITS_SHEET}}
            THEN [data |-> "worksheet", sheet |-> Some(TemplateSheet(tidy, filename))]
            ELSE [data |-> filename, sheet |-> None]
        Package(present, bad, gone, tidy) ==
            LET names == SelectSeq(SubSeq(EntryNames, 1, IF tidy THEN 8 ELSE 7),
                                   LAMBDA f : f \notin gone)
            IN  [sheet_map |-> [n \in present \cup {UNITS_SHEET} |-> SheetPath(n)],
                 shared |-> IF tidy THEN TidyShared ELSE <<>>,
                 entries |-> [i \in DOMAIN names |->
                                [filename |-> names[i],
                                 readable |-> names[i] \notin bad,
                                 content |-> TemplateContent(tidy, names[i])]]]
    IN  {Package(present, damage[1], damage[2], tidy) :
            present \in {ToSet(TargetSheets)}
                        \cup {ToSet(TargetSheets) \ {n} : n \in ToSet(TargetSheets)},
            damage \in {<<{}, {}>>,
                        <<{"xl/worksheets/sheet2.xml"}, {}>>,
                        <<{"xl/styles.xml"}, {}>>,
                        <<{"xl/_rels/workbook.xml.rels"}, {}>>,
                        <<{}, {"xl/worksheets/sheet3.xml"}>>},
            tidy \in BOOLEAN}

\* inputs of normalize_recipe: units that are listed, unlisted, and a listed
\* one with a leading space; modes that are supported and listed, supported
\* and unlisted, listed and unsupported, or neither (depending on the
\* snapshot); accessories listed or not
NormRecipes ==
    LET NormUnits == {<<"g">>, <<"cup">>, <<" ", "g">>}
        NormModes == {MODE_DESCRIPTION, MODE_ADAPTED, <<"Knead">>, <<"INVALID">>}
        NormIngredients ==
            UNION {{[i \in 1..n |-> Ingredient(i, 100, us[i], <<"a">>)] :
                        us \in [1..n -> NormUnits]} : n \in 0..MaxItems}
        NormSteps ==
            UNION {{[i \in 1..n |-> Step(i, ms[i], Some(<<"a">>), None, None, None,
                                         None, None)] :
                        ms \in [1..n -> NormModes]} : n \in 0..MaxItems}
    IN  {Recipe(RecipeMeta(1, LANGUAGE_ES, RECIPE_TYPE_ROBOT_COOKER, <<"a">>, 2),
                ings, sts) : ings \in NormIngredients, sts \in NormSteps}
NormAccessories ==
    {<<>>, <<<<"Cuchilla">>>>, <<<<"INVALID">>, <<"Cuchilla">>>>}

\* snapshots for the normalizer: the ones above, one with an accessory
\* sheet, one without the unit sheet, and two in which every row of the unit
\* sheet (of the working-mode sheet) lacks the designated column
AccessoryRows ==
    <<Cell(ACCESSORIES_HEADER, Some(<<"Cuchilla">>)),
      Cell(ACCESSORIES_HEADER, Some(<<"Cuchilla", " ">>))>>
\* rows that hold other columns only, or nothing
RowsWithout(header) ==
    <<Cell(IF header = LABELS_HEADER THEN CATEGORIES_HEADER ELSE LABELS_HEADER,
           Some(<<"g">>)),
      <<>>>>
NormSnapshots ==
    LET SnapshotOf(unit_rows, mode_rows, accessory_rows) ==
            [s \in {UNITS_SHEET, WORKING_MODES_SHEET, ACCESSORIES_SHEET} |->
                IF s = UNITS_SHEET THEN unit_rows
                ELSE IF s = WORKING_MODES_SHEET THEN mode_rows
                ELSE accessory_rows]
        AccessoriesSnapshot == SnapshotOf(UnitRows, AllModeRows, AccessoryRows)
        NoUnitsSnapshot ==
            [s \in {WORKING_MODES_SHEET, ACCESSORIES_SHEET} |->
                IF s = WORKING_MODES_SHEET THEN AllModeRows ELSE AccessoryRows]
        NoUnitsColumnSnapshot ==
            SnapshotOf(RowsWithout(UNITS_HEADER), AllModeRows, AccessoryRows)
        NoModesColumnSnapshot ==
            SnapshotOf(UnitRows, RowsWithout(WORKING_MODES_HEADER), AccessoryRows)
    IN  Snapshots \cup {AccessoriesSnapshot, NoUnitsSnapshot,
                        NoUnitsColumnSnapshot, NoModesColumnSnapshot}

\* snapshots for load_lookups: one sheet varies over every list of at most
\* MaxRows rows whose cell is missing, under another header, null, empty,
\* blank, plain, padded on either side, or text with a space inside; the
\* other four sheets are all absent or all present with fixed rows
LookupCategories ==
    <<[field |-> "units", sheet |-> UNITS_SHEET, header |-> UNITS_HEADER],
      [field |-> "accessories", sheet |-> ACCESSORIES_SHEET,
       header |-> ACCESSORIES_HEADER],
      [field |-> "working_modes", sheet |-> WORKING_MODES_SHEET,
       header |-> WORKING_MODES_HEADER],
      [field |-> "categories", sheet |-> CATEGORIES_SHEET,
       header |-> CATEGORIES_HEADER],
      [field |-> "labels", sheet |-> LABELS_SHEET, header |-> LABELS_HEADER]>>
FixedRows(header) ==
    <<Cell(header, Some(<<"ml">>)), Cell(header, Some(<<"cup">>)),
      Cell(header, Some(<<"ml", " ">>))>>
LoaderSnapshots ==
    LET LoaderCells(header) ==
            {<<>>, RowsWithout(header)[1]}
            \cup {Cell(header, v) :
                    v \in {None, Some(<<>>), Some(<<" ">>), Some(<<"g">>),
                           Some(<<" ", "g">>), Some(<<"g", "\t">>),
                           Some(<<"a", " ", "g">>)}}
        \* the designated column of a sheet
        HeaderOf(sheet) ==
            LookupCategories[CHOOSE k \in DOMAIN LookupCategories :
                                LookupCategories[k].sheet = sheet].header
        AllSheets == {LookupCategories[k].sheet : k \in DOMAIN LookupCategories}
    IN  UNION {{[s \in (IF others THEN AllSheets ELSE {sheet}) |->
                    IF s = sheet THEN rows ELSE FixedRows(HeaderOf(s))] :
                   rows \in UNION {[1..n -> LoaderCells(HeaderOf(sheet))] :
                                      n \in 0..MaxRows},
                   others \in BOOLEAN} :
               sheet \in AllSheets}

-----------------------------------------------------------------------------
(* src/pipeline/run_pipeline.py: run_pipeline, one action per call it      *)
(* makes, and the writer it ends with, one action per package operation.   *)

ValueError(stage, errors) ==
    [kind |-> "ValueError", stage |-> stage, errors |-> errors]

Called(call, i) == [call |-> call, recipe |-> i]

\* where the for loop of line 32 goes with the recipe at position i next
ForNext(i) == IF i <= Len(recipes) THEN "validate_recipe" ELSE "write"

Init ==
    /\ recipes \in Batches
    /\ snapshot \in Snapshots
    /\ pc = "load_lookups"
    /\ idx = 1
    /\ lookups = None
    /\ raised = None
    /\ log = <<>>
    /\ writerCalls = <<>>
    /\ template = None
    /\ copied = 0
    /\ outFile = NoFile
    /\ input = None
    /\ result = None

\* A plausible slip: an early return for an empty batch, before the writer.
LoadLookups_returns_on_empty_batch ==
    /\ pc = "load_lookups"
    /\ lookups' = Some(load_lookups(snapshot))
    /\ log' = Append(log, Called("load_lookups", 0))
    /\ idx' = 1
    /\ pc' = IF recipes = <<>> THEN "done" ELSE ForNext(1)
    /\ UNCHANGED <<recipes, snapshot, raised, writerCalls, template, copied,
                   outFile, input, result>>

\* line 30
LoadLookups ==
    /\ pc = "load_lookups"
    /\ lookups' = Some(load_lookups(snapshot))
    /\ log' = Append(log, Called("load_lookups", 0))
    /\ idx' = 1
    /\ pc' = ForNext(1)
    /\ UNCHANGED <<recipes, snapshot, raised, writerCalls, template, copied,
                   outFile, input, result>>

\* A plausible slip: the schema check is a loop of its own over the whole
\* batch, and the per-recipe stages start once it has ended.
SchemaStage_batch_first ==
    /\ pc = "validate_recipe"
    /\ LET schema_errors == validate_recipe(recipes[idx])
       IN  /\ log' = Append(log, Called("validate_recipe", idx))
           /\ IF Truthy(schema_errors)
              THEN /\ raised' = Some(ValueError("Schema errors", schema_errors))
                   /\ pc' = "raised"
                   /\ idx' = idx
              ELSE /\ raised' = raised
                   /\ idx' = IF idx < Len(recipes) THEN idx + 1 ELSE 1
                   /\ pc' = IF idx < Len(recipes) THEN "validate_recipe"
                            ELSE "normalize_recipe"
    /\ UNCHANGED <<recipes, snapshot, lookups, writerCalls, template,
                   copied, outFile, input, result>>

\* A plausible slip: only the first message of the list is raised.
SchemaStage_first_message ==
    /\ pc = "validate_recipe"
    /\ LET schema_errors == validate_recipe(recipes[idx])
       IN  /\ log' = Append(log, Called("validate_recipe", idx))
           /\ IF Truthy(schema_errors)
              THEN /\ raised' = Some(ValueError("Schema errors",
                                                <<Head(schema_errors)>>))
                   /\ pc' = "raised"
              ELSE /\ raised' = raised
                   /\ pc' = "normalize_recipe"
    /\ UNCHANGED <<recipes, snapshot, idx, lookups, writerCalls, template,
                   copied, outFile, input, result>>

\* A plausible slip: the schema check guards the first recipe only.
SchemaStage_first_recipe_only ==
    /\ pc = "validate_recipe"
    /\ LET schema_errors == validate_recipe(recipes[idx])
       IN  /\ log' = Append(log, Called("validate_recipe", idx))
           /\ IF idx = 1 /\ Truthy(schema_errors)
              THEN /\ raised' = Some(ValueError("Schema errors", schema_errors))
                   /\ pc' = "raised"
              ELSE /\ raised' = raised
                   /\ pc' = "normalize_recipe"
    /\ UNCHANGED <<recipes, snapshot, idx, lookups, writerCalls, template,
                   copied, outFile, input, result>>

\* lines 33-35
SchemaStage ==
    /\ pc = "validate_recipe"
    /\ LET schema_errors == validate_recipe(recipes[idx])
       IN  /\ log' = Append(log, Called("validate_recipe", idx))
           /\ IF Truthy(schema_errors)
              THEN /\ raised' = Some(ValueError("Schema errors", schema_errors))
                   /\ pc' = "raised"
              ELSE /\ raised' = raised
                   /\ pc' = "normalize_recipe"
    /\ UNCHANGED <<recipes, snapshot, idx, lookups, writerCalls, template,
                   copied, outFile, input, result>>

\* A plausible slip: the normalization errors are computed and never
\* looked at.
NormalizeStage_unchecked ==
    /\ pc = "normalize_recipe"
    /\ log' = Append(log, Called("normalize_recipe", idx))
    /\ pc' = "validate_steps"
    /\ UNCHANGED <<recipes, snapshot, idx, lookups, raised, writerCalls,
                   template, copied, outFile, input, result>>

\* A plausible slip: the orchestrator hands the writer's default accessory
\* to the normalizer instead of an empty list.
NormalizeStage_default_accessory ==
    /\ pc = "normalize_recipe"
    /\ LET normalization_errors ==
               normalize_recipe(recipes[idx], Val(lookups),
                                <<DEFAULT_ACCESSORY_NAME>>)
       IN  /\ log' = Append(log, Called("normalize_recipe", idx))
           /\ IF Truthy(normalization_errors)
              THEN /\ raised' = Some(ValueError("Normalization errors",
                                                normalization_errors))
                   /\ pc' = "raised"
              ELSE /\ raised' = raised
                   /\ pc' = "validate_steps"
    /\ UNCHANGED <<recipes, snapshot, idx, lookups, writerCalls, template,
                   copied, outFile, input, result>>

\* lines 37-39
NormalizeStage ==
    /\ pc = "normalize_recipe"
    /\ LET normalization_errors ==
               normalize_recipe(recipes[idx], Val(lookups), <<>>)
       IN  /\ log' = Append(log, Called("normalize_recipe", idx))
           /\ IF Truthy(normalization_errors)
              THEN /\ raised' = Some(ValueError("Normalization errors",
                                                normalization_errors))
                   /\ pc' = "raised"
              ELSE /\ raised' = raised
                   /\ pc' = "validate_steps"
    /\ UNCHANGED <<recipes, snapshot, idx, lookups, writerCalls, template,
                   copied, outFile, input, result>>

\* A plausible slip: the rule errors are computed and never looked at.
RuleStage_unchecked ==
    /\ pc = "validate_steps"
    /\ log' = Append(log, Called("validate_steps", idx))
    /\ idx' = idx + 1
    /\ pc' = ForNext(idx + 1)
    /\ UNCHANGED <<recipes, snapshot, lookups, raised, writerCalls, template,
                   copied, outFile, input, result>>

\* lines 41-43, and the step of the for loop to the next recipe
RuleStage ==
    /\ pc = "validate_steps"
    /\ LET rule_errors == validate_steps(recipes[idx].steps)
       IN  /\ log' = Append(log, Called("validate_steps", idx))
           /\ IF Truthy(rule_errors)
              THEN /\ raised' = Some(ValueError("Rule errors", rule_errors))
                   /\ pc' = "raised"
                   /\ idx' = idx
              ELSE /\ raised' = raised
                   /\ idx' = idx + 1
                   /\ pc' = ForNext(idx + 1)
    /\ UNCHANGED <<recipes, snapshot, lookups, writerCalls, template, copied,
                   outFile, input, result>>

\* reversed(list)
RECURSIVE Reversed(_)
Reversed(list) ==
    IF list = <<>> THEN <<>> ELSE Append(Reversed(Tail(list)), Head(list))

\* A plausible slip: the writer is handed the batch in reverse order.
WriterPrepare_reversed ==
    /\ pc = "write"
    /\ writerCalls' = Append(writerCalls, Reversed(recipes))
    /\ log' = Append(log, Called("write_recipes_to_template", 0))
    /\ \E t \in Templates :
          /\ template' = Some(t)
          /\ raised' = WriterFailure(t)
          /\ pc' = IF IsNone(WriterFailure(t)) THEN "open_output"
                   ELSE "raised"
    /\ UNCHANGED <<recipes, snapshot, idx, lookups, copied, outFile, input,
                   result>>

\* line 45 and, in the writer, lines 283-302: the template is opened, the
\* three sheets are looked up and read, and their replacements are built.
\* The template is whatever package lies at template_path.
WriterPrepare ==
    /\ pc = "write"
    /\ writerCalls' = Append(writerCalls, recipes)
    /\ log' = Append(log, Called("write_recipes_to_template", 0))
    /\ \E t \in Templates :
          /\ template' = Some(t)
          /\ raised' = WriterFailure(t)
          /\ pc' = IF IsNone(WriterFailure(t)) THEN "open_output"
                   ELSE "raised"
    /\ UNCHANGED <<recipes, snapshot, idx, lookups, copied, outFile, input,
                   result>>

\* line 304: zipfile.ZipFile(output_path, "w") creates or truncates the file
WriterOpenOutput ==
    /\ pc = "open_output"
    /\ outFile' = [exists |-> TRUE, closed |-> FALSE, entries |-> <<>>]
    /\ copied' = 0
    /\ pc' = "copy"
    /\ UNCHANGED <<recipes, snapshot, idx, lookups, raised, log, writerCalls,
                   template, input, result>>

\* the copy loop writing the replaced sheets only
WriterCopyEntry_replaced_only ==
    /\ pc = "copy"
    /\ copied < Len(Val(template).entries)
    /\ LET item == Val(template).entries[copied + 1]
           replaced == item.filename \in Replacements(Val(template))
       IN  outFile' = [outFile EXCEPT !.entries =
                          IF replaced
                          THEN Append(@, [filename |-> item.filename,
                                          content |->
                                              ReplacementContent(
                                                  Val(template),
                                                  item.filename,
                                                  writerCalls[Len(writerCalls)])])
                          ELSE @]
    /\ copied' = copied + 1
    /\ pc' = "copy"
    /\ UNCHANGED <<recipes, snapshot, idx, lookups, raised, log, writerCalls,
                   template, input, result>>

\* lines 305-309, one turn of the loop: a replaced sheet is written from
\* `replacements`, any other entry is read from the template by its name
\* and written.
\* A read that fails leaves the with block of line 304, which closes the
\* output file and leaves it where it is.
WriterCopyEntry ==
    /\ pc = "copy"
    /\ copied < Len(Val(template).entries)
    /\ LET item == Val(template).entries[copied + 1]
           replaced == item.filename \in Replacements(Val(template))
       IN  IF ~replaced /\ ~getinfo(Val(template), item.filename).readable
           THEN /\ raised' = Some([kind |-> "BadZipFile", stage |-> "copy",
                                   errors |-> <<item.filename>>])
                /\ outFile' = [outFile EXCEPT !.closed = TRUE]
                /\ copied' = copied
                /\ pc' = "raised"
           ELSE /\ raised' = raised
                /\ outFile' = [outFile EXCEPT !.entries =
                                 Append(@, [filename |-> item.filename,
                                            content |->
                                                IF replaced
                                                THEN ReplacementContent(
                                                         Val(template),
                                                         item.filename,
                                                         writerCalls[Len(writerCalls)])
                                                ELSE getinfo(Val(template),
                                                             item.filename).content])]
                /\ copied' = copied + 1
                /\ pc' = "copy"
    /\ UNCHANGED <<recipes, snapshot, idx, lookups, log, writerCalls, template,
                   input, result>>

\* the end of the with blocks: the output file is closed, run_pipeline
\* returns
WriterClose ==
    /\ pc = "copy"
    /\ copied = Len(Val(template).entries)
    /\ outFile' = [outFile EXCEPT !.closed = TRUE]
    /\ pc' = "done"
    /\ UNCHANGED <<recipes, snapshot, idx, lookups, raised, log, writerCalls,
                   template, copied, input, result>>

Next ==
    \/ LoadLookups
    \/ SchemaStage
    \/ NormalizeStage
    \/ RuleStage
    \/ WriterPrepare
    \/ WriterOpenOutput
    \/ WriterCopyEntry
    \/ WriterClose

Spec == Init /\ [][Next]_vars

-----------------------------------------------------------------------------
(* Direct calls of the pure functions.                                     *)

IdleRun ==
    /\ recipes = <<>>
    /\ snapshot = <<>>
    /\ idx = 1
    /\ lookups = None
    /\ raised = None
    /\ log = <<>>
    /\ writerCalls = <<>>
    /\ template = None
    /\ copied = 0
    /\ outFile = NoFile

InitSchema ==
    /\ IdleRun
    /\ pc = "call"
    /\ input \in {Some(r) : r \in SchemaRecipes}
    /\ result = None

CallValidateRecipe ==
    /\ pc = "call"
    /\ result' = Some(validate_recipe(Val(input)))
    /\ pc' = "returned"
    /\ UNCHANGED <<recipes, snapshot, idx, lookups, raised, log, writerCalls,
                   template, copied, outFile, input>>

SpecSchema == InitSchema /\ [][CallValidateRecipe]_vars

InitRules ==
    /\ IdleRun
    /\ pc = "call"
    /\ input \in {Some(<<s>>) : s \in RuleSteps}
    /\ result = None

CallValidateSteps ==
    /\ pc = "call"
    /\ result' = Some(validate_steps(Val(input)))
    /\ pc' = "returned"
    /\ UNCHANGED <<recipes, snapshot, idx, lookups, raised, log, writerCalls,
                   template, copied, outFile, input>>

SpecRules == InitRules /\ [][CallValidateSteps]_vars

\* validate_steps called on a list of steps
InitStepLists ==
    /\ IdleRun
    /\ pc = "call"
    /\ input \in {Some(steps) : steps \in StepLists}
    /\ result = None

SpecStepLists == InitStepLists /\ [][CallValidateSteps]_vars

\* normalize_recipe called on lookups that load_lookups has just read, as
\* scripts/test_list_normalizer.py and run_pipeline do
InitNormalize ==
    /\ recipes = <<>>
    /\ snapshot \in NormSnapshots
    /\ idx = 1
    /\ lookups = None
    /\ raised = None
    /\ log = <<>>
    /\ writerCalls = <<>>
    /\ template = None
    /\ copied = 0
    /\ outFile = NoFile
    /\ pc = "call"
    /\ input \in {Some([recipe |-> r, accessories |-> a]) :
                    r \in NormRecipes, a \in NormAccessories}
    /\ result = None

CallLoadLookups ==
    /\ pc = "call"
    /\ lookups' = Some(load_lookups(snapshot))
    /\ pc' = "loaded"
    /\ UNCHANGED <<recipes, snapshot, idx, raised, log, writerCalls, template,
                   copied, outFile, input, result>>

CallNormalizeRecipe ==
    /\ pc = "loaded"
    /\ result' = Some(normalize_recipe(Val(input).recipe, Val(lookups),
                                       Val(input).accessories))
    /\ pc' = "returned"
    /\ UNCHANGED <<recipes, snapshot, idx, lookups, raised, log, writerCalls,
                   template, copied, outFile, input>>

SpecNormalize ==
    InitNormalize /\ [][CallLoadLookups \/ CallNormalizeRecipe]_vars

\* load_lookups called on its own, as scripts/test_lookups_loader.py does
InitLookups ==
    /\ recipes = <<>>
    /\ snapshot \in LoaderSnapshots
    /\ idx = 1
    /\ lookups = None
    /\ raised = None
    /\ log = <<>>
    /\ writerCalls = <<>>
    /\ template = None
    /\ copied = 0
    /\ outFile = NoFile
    /\ pc = "call"
    /\ input = None
    /\ result = None

SpecLookups == InitLookups /\ [][CallLoadLookups]_vars

\* the two callers of normalize_recipe side by side: run_pipeline on a
\* batch, under every snapshot of the normalizer (with and without an
\* accessory sheet), and the direct call with accessories of the caller
InitPipelineAnySnapshot ==
    /\ recipes \in Batches
    /\ snapshot \in NormSnapshots
    /\ pc = "load_lookups"
    /\ idx = 1
    /\ lookups = None
    /\ raised = None
    /\ log = <<>>
    /\ writerCalls = <<>>
    /\ template = None
    /\ copied = 0
    /\ outFile = NoFile
    /\ input = None
    /\ result = None

SpecNormalizerCallers ==
    /\ InitPipelineAnySnapshot \/ InitNormalize
    /\ [][Next \/ CallLoadLookups \/ CallNormalizeRecipe]_vars

\* write_recipes_to_template called on its own, as
\* scripts/test_excel_writer.py does
InitWriter ==
    /\ recipes \in WriterBatches
    /\ snapshot = <<>>
    /\ pc = "write"
    /\ idx = 1
    /\ lookups = None
    /\ raised = None
    /\ log = <<>>
    /\ writerCalls = <<>>
    /\ template = None
    /\ copied = 0
    /\ outFile = NoFile
    /\ input = None
    /\ result = None

SpecWriter ==
    InitWriter
    /\ [][WriterPrepare \/ WriterOpenOutput \/ WriterCopyEntry
          \/ WriterClose]_vars

-----------------------------------------------------------------------------
(* Vocabulary of the properties.                                           *)

ValidationStages == {"Schema errors", "Normalization errors", "Rule errors"}

\* the run ended with the ValueError of one of the three stages
ValidationFailed ==
    /\ pc = "raised"
    /\ Val(raised).kind = "ValueError"
    /\ Val(raised).stage \in ValidationStages

\* what each stage returns for a recipe under the snapshot's lookups
SchemaOf(r) == validate_recipe(r)
NormalizationOf(r) == normalize_recipe(r, load_lookups(snapshot), <<>>)
RulesOf(r) == validate_steps(r.steps)
StageResult(stage, r) ==
    IF stage = "Schema errors" THEN SchemaOf(r)
    ELSE IF stage = "Normalization errors" THEN NormalizationOf(r)
    ELSE RulesOf(r)

Passes(r) == SchemaOf(r) = <<>> /\ NormalizationOf(r) = <<>> /\ RulesOf(r) = <<>>
AllPass == \A i \in DOMAIN recipes : Passes(recipes[i])

\* the first stage, in the order schema, normalization, rule, that a failing
\* recipe fails
FirstFailingStage(r) ==
    IF SchemaOf(r) # <<>> THEN "Schema errors"
    ELSE IF NormalizationOf(r) # <<>> THEN "Normalization errors"
    ELSE "Rule errors"

\* the position of the first recipe of the batch that fails some stage
FirstFailing ==
    CHOOSE i \in DOMAIN recipes :
        /\ ~Passes(recipes[i])
        /\ \A j \in 1..(i - 1) : Passes(recipes[j])

\* position in the log of the call `call` on recipe i (0 when not made)
LogPos(call, i) ==
    IF \E p \in DOMAIN log : log[p] = Called(call, i)
    THEN CHOOSE p \in DOMAIN log : log[p] = Called(call, i)
    ELSE 0

Count(seq, x) == Cardinality({i \in DOMAIN seq : seq[i] = x})
Bit(b) == IF b THEN 1 ELSE 0

\* a str that is empty or consists of whitespace only
Blank(str) == \A i \in DOMAIN str : IsSpace(str[i])
\* an Optional[str] that is absent or blank
AbsentOrBlank(o) == IsNone(o) \/ Blank(Val(o))

-----------------------------------------------------------------------------
(* The orchestrator: C1 - C6.                                              *)

\* C1: the writer is invoked only if every recipe of the batch has an empty
\* validate_recipe result, an empty normalize_recipe result against the
\* loaded lookups and an empty validate_steps result; if some recipe fails
\* some stage the writer is never invoked (and a run that ended with a
\* validation failure has not invoked it).
C1_WriterOnlyAfterAllPass ==
    /\ (writerCalls # <<>>) =>
          /\ lookups = Some(load_lookups(snapshot))
          /\ \A i \in DOMAIN recipes :
                /\ validate_recipe(recipes[i]) = <<>>
                /\ normalize_recipe(recipes[i], Val(lookups), <<>>) = <<>>
                /\ validate_steps(recipes[i].steps) = <<>>
    /\ ValidationFailed => writerCalls = <<>>

\* a run of a batch of two recipes that reached the writer and finished
C1_Witness ==
    /\ pc = "done"
    /\ Len(recipes) = 2
    /\ recipes[1] # recipes[2]
    /\ writerCalls # <<>>

\* C2, as claimed: after any failed run no output artifact exists at
\* output_path, whether a validation stage rejected the batch or the writer
\* failed (a missing target sheet, or an error while entries are copied into
\* the opened output file).
C2_NoArtifactAfterFailure ==
    pc = "raised" => ~outFile.exists

\* C3, as claimed: every recipe is schema-validated before any recipe is
\* normalized, every recipe is normalized before any recipe is
\* rule-validated, and a run on a batch holding a recipe with a schema error
\* ends with the schema-error failure.
C3_StageMajorOrder ==
    /\ \A p \in DOMAIN log :
          /\ log[p].call = "normalize_recipe" =>
                \A i \in DOMAIN recipes :
                    \E q \in 1..(p - 1) : log[q] = Called("validate_recipe", i)
          /\ log[p].call = "validate_steps" =>
                \A i \in DOMAIN recipes :
                    \E q \in 1..(p - 1) : log[q] = Called("normalize_recipe", i)
    /\ (pc \in {"raised", "done"}
        /\ \E i \in DOMAIN recipes : SchemaOf(recipes[i]) # <<>>)
       => (pc = "raised" /\ Val(raised).stage = "Schema errors")

\* C3, amended: the recipes are taken in batch order and each recipe is
\* schema-validated, then normalized, then rule-validated before the next
\* recipe is touched; so a run that fails validation fails with the
\* schema-error failure exactly when the first recipe that fails any stage
\* has a schema error, and when it does, no membership test was made on that
\* recipe or on a later one.
C3_RecipeMajorOrder ==
    /\ \A p \in DOMAIN log :
          /\ log[p].call = "validate_recipe" =>
                log[p - 1] = IF log[p].recipe = 1
                             THEN Called("load_lookups", 0)
                             ELSE Called("validate_steps", log[p].recipe - 1)
          /\ log[p].call = "normalize_recipe" =>
                log[p - 1] = Called("validate_recipe", log[p].recipe)
          /\ log[p].call = "validate_steps" =>
                log[p - 1] = Called("normalize_recipe", log[p].recipe)
    /\ ValidationFailed =>
          /\ (Val(raised).stage = "Schema errors"
              <=> SchemaOf(recipes[FirstFailing]) # <<>>)
          /\ Val(raised).stage = "Schema errors" =>
                \A p \in DOMAIN log :
                    log[p].call = "normalize_recipe" =>
                        log[p].recipe < FirstFailing

\* a run that reported the first recipe's normalization error although the
\* second recipe has a schema error
C3_Witness ==
    /\ ValidationFailed
    /\ Val(raised).stage = "Normalization errors"
    /\ Len(recipes) = 2
    /\ SchemaOf(recipes[1]) = <<>>
    /\ SchemaOf(recipes[2]) # <<>>

\* C4: a validation failure belongs to the first recipe in batch order that
\* fails any stage and to that recipe's first failing stage in the order
\* schema, normalization, rule; no later recipe is examined and nothing is
\* written.  For a batch of two whose first recipe is valid and whose second
\* has one ingredient unit outside lookups.units, the run ends with the
\* second recipe's normalization error.
C4_FirstFailingRecipeAndStage ==
    /\ ValidationFailed =>
          /\ ~AllPass
          /\ idx = FirstFailing
          /\ Val(raised).stage = FirstFailingStage(recipes[FirstFailing])
          /\ log[Len(log)].recipe = FirstFailing
          /\ \A p \in DOMAIN log : log[p].recipe <= FirstFailing
          /\ writerCalls = <<>>
          /\ ~outFile.exists
    /\ (/\ pc \in {"raised", "done"}
        /\ Len(recipes) = 2
        /\ Passes(recipes[1])
        /\ SchemaOf(recipes[2]) = <<>>
        /\ NormalizationOf(recipes[2]) =
               <<NormalizationError("unit", <<"cup">>)>>)
       => /\ raised = Some(ValueError("Normalization errors",
                               <<NormalizationError("unit", <<"cup">>)>>))
          /\ writerCalls = <<>>
          /\ ~outFile.exists

\* the batch scenario: first recipe valid, second with one unit outside the
\* lookups, and the run has ended
C4_Witness ==
    /\ pc = "raised"
    /\ Len(recipes) = 2
    /\ Passes(recipes[1])
    /\ SchemaOf(recipes[2]) = <<>>
    /\ NormalizationOf(recipes[2]) = <<NormalizationError("unit", <<"cup">>)>>

\* the messages a stage yields for the whole batch, recipe after recipe
RECURSIVE StageMessagesFrom(_, _)
StageMessagesFrom(stage, i) ==
    IF i > Len(recipes) THEN <<>>
    ELSE StageResult(stage, recipes[i]) \o StageMessagesFrom(stage, i + 1)

\* C5, as claimed: a validation failure reports the failing stage together
\* with every message that stage produces for the batch being run.
C5_ReportsAllMessagesOfBatch ==
    ValidationFailed =>
        Val(raised).errors = StageMessagesFrom(Val(raised).stage, 1)

\* C5, amended: a validation failure reports the failing stage together
\* with the complete list of messages that stage returns for the first
\* failing recipe (all of them, not only the first); the messages the stage
\* would return for later recipes are not part of the report.
C5_ReportsAllMessagesOfRecipe ==
    ValidationFailed =>
        /\ Val(raised).stage = FirstFailingStage(recipes[FirstFailing])
        /\ Val(raised).errors =
               StageResult(Val(raised).stage, recipes[FirstFailing])
        /\ Val(raised).errors # <<>>

\* a failure that reports several messages of one recipe while a later
\* recipe has messages of the same stage that are not reported
C5_Witness ==
    /\ ValidationFailed
    /\ Len(Val(raised).errors) >= 2
    /\ \E j \in DOMAIN recipes :
          /\ j > idx
          /\ StageResult(Val(raised).stage, recipes[j]) # <<>>

\* C6: when every recipe passes all three stages the writer is invoked
\* exactly once, after the last validation, with the list run_pipeline
\* received: same recipes, same order, no field changed (no step of the run
\* changes the batch).
C6_WriterGetsTheBatchOnce ==
    /\ [](/\ (AllPass /\ pc \in {"open_output", "copy", "done", "raised"})
              => writerCalls = <<recipes>>
          /\ Len(writerCalls) <= 1)
    /\ [][/\ recipes' = recipes
          /\ writerCalls' # writerCalls =>
                /\ writerCalls = <<>>
                /\ writerCalls' = <<recipes>>
                /\ log[Len(log)] =
                       IF recipes = <<>> THEN Called("load_lookups", 0)
                       ELSE Called("validate_steps", Len(recipes))
                /\ \A i \in DOMAIN recipes :
                      /\ LogPos("validate_recipe", i) > 0
                      /\ LogPos("normalize_recipe", i) > 0
                      /\ LogPos("validate_steps", i) > 0]_vars

\* a finished run on two different valid recipes
C6_Witness ==
    /\ pc = "done"
    /\ Len(recipes) = 2
    /\ recipes[1] # recipes[2]
    /\ AllPass
    /\ writerCalls = <<recipes>>
    /\ outFile.exists

-----------------------------------------------------------------------------
(* validate_recipe: C7.                                                    *)

\* C7: the seven checks are independent and accumulate: each error is in
\* the result exactly when its own condition is violated, at most once, and
\* nothing else is in the result.
C7_SevenIndependentChecks ==
    (pc = "returned") =>
        LET r == Val(input)
            e == Val(result)
        IN  /\ Count(e, ERR_LANGUAGE) = Bit(r.meta.language # LANGUAGE_ES)
            /\ Count(e, ERR_RECIPE_TYPE) =
                   Bit(r.meta.recipe_type # RECIPE_TYPE_ROBOT_COOKER)
            /\ Count(e, ERR_RECIPE_NO) = Bit(r.meta.recipe_no <= 0)
            /\ Count(e, ERR_SERVINGS) = Bit(r.meta.servings <= 0)
            /\ Count(e, ERR_NAME) = Bit(Blank(r.meta.name))
            /\ Count(e, ERR_INGREDIENTS) = Bit(Len(r.ingredients) = 0)
            /\ Count(e, ERR_STEPS) = Bit(Len(r.steps) = 0)
            /\ Len(e) = Bit(r.meta.language # LANGUAGE_ES)
                      + Bit(r.meta.recipe_type # RECIPE_TYPE_ROBOT_COOKER)
                      + Bit(r.meta.recipe_no <= 0)
                      + Bit(r.meta.servings <= 0)
                      + Bit(Blank(r.meta.name))
                      + Bit(Len(r.ingredients) = 0)
                      + Bit(Len(r.steps) = 0)

\* a recipe that violates all seven checks, with its seven errors
C7_Witness ==
    /\ pc = "returned"
    /\ Len(Val(result)) = 7
    /\ Val(input).meta.name = <<" ", "\t">>

-----------------------------------------------------------------------------
(* validate_steps: C8 - C10.                                               *)

CountRule(errs, rule) == Cardinality({i \in DOMAIN errs : errs[i].rule = rule})

AnyControlSet(s) ==
    ~(/\ IsNone(s.temperature) /\ IsNone(s.speed) /\ IsNone(s.direction)
      /\ IsNone(s.minutes) /\ IsNone(s.seconds))

\* C8: for a Description or Weigh step the result holds exactly one
\* 'description required' error iff the description is absent or blank,
\* exactly one 'controls must be empty' error iff one of the five controls
\* is non-null (0 counts as set), and nothing else.
C8_DescriptionAndWeighRules ==
    (pc = "returned" /\ Val(input)[1].mode \in {MODE_DESCRIPTION, MODE_WEIGH}) =>
        LET s == Val(input)[1]
            e == Val(result)
        IN  /\ CountRule(e, RULE_DESCRIPTION_REQUIRED) =
                   Bit(AbsentOrBlank(s.description))
            /\ CountRule(e, RULE_CONTROLS_EMPTY) = Bit(AnyControlSet(s))
            /\ Len(e) = Bit(AbsentOrBlank(s.description)) + Bit(AnyControlSet(s))
            /\ \A i \in DOMAIN e : e[i].step = s.no /\ e[i].mode = s.mode

\* a Weigh step with a whitespace description whose only set control is a
\* zero: both errors, once each
C8_Witness ==
    /\ pc = "returned"
    /\ Val(input)[1].mode = MODE_WEIGH
    /\ Val(input)[1].description = Some(<<" ", "\t">>)
    /\ Val(input)[1].temperature = None
    /\ Val(input)[1].speed = None
    /\ Val(input)[1].direction = None
    /\ Val(input)[1].minutes = Some(0)
    /\ Val(input)[1].seconds = None
    /\ Len(Val(result)) = 2

\* C9: for an Adapted Cooking step the result holds 'description should be
\* empty' iff the description is non-blank, 'time required' iff minutes and
\* seconds are both null, 'speed required' iff speed is null, and nothing
\* else; it is the same for every temperature and direction.
C9_AdaptedCookingRules ==
    (pc = "returned" /\ Val(input)[1].mode = MODE_ADAPTED) =>
        LET s == Val(input)[1]
            e == Val(result)
            noTime == IsNone(s.minutes) /\ IsNone(s.seconds)
        IN  /\ CountRule(e, RULE_DESCRIPTION_EMPTY) =
                   Bit(~AbsentOrBlank(s.description))
            /\ CountRule(e, RULE_TIME_REQUIRED) = Bit(noTime)
            /\ CountRule(e, RULE_SPEED_REQUIRED) = Bit(IsNone(s.speed))
            /\ Len(e) = Bit(~AbsentOrBlank(s.description)) + Bit(noTime)
                      + Bit(IsNone(s.speed))
            /\ \A t \in OptInts, d \in OptDirections :
                  validate_steps(<<[s EXCEPT !.temperature = t,
                                             !.direction = d]>>) = e

\* an Adapted Cooking step without description, temperature or direction,
\* with a speed and with seconds only: no errors
C9_Witness ==
    /\ pc = "returned"
    /\ Val(input)[1].mode = MODE_ADAPTED
    /\ Val(input)[1].description = None
    /\ Val(input)[1].temperature = None
    /\ Val(input)[1].direction = None
    /\ Val(input)[1].speed = Some(0)
    /\ Val(input)[1].minutes = None
    /\ Val(input)[1].seconds = Some(5)
    /\ Val(result) = <<>>

\* C10: for a step whose mode is none of the three labels the result is
\* exactly the 'unsupported working mode' error, whatever the description
\* and the controls are.
C10_UnknownModeOneError ==
    (/\ pc = "returned"
     /\ Val(input)[1].mode \notin {MODE_DESCRIPTION, MODE_WEIGH, MODE_ADAPTED}) =>
        Val(result) = <<RuleError(Val(input)[1], RULE_UNSUPPORTED)>>

\* a step whose mode is a known label followed by a space, with a blank
\* description and controls set: one error
C10_Witness ==
    /\ pc = "returned"
    /\ Val(input)[1].mode = <<"(Weigh)", " ">>
    /\ Val(input)[1].description = Some(<<>>)
    /\ Val(input)[1].temperature = Some(5)
    /\ Val(input)[1].speed = None
    /\ Len(Val(result)) = 1

-----------------------------------------------------------------------------
(* The list normalizer: C11, C12.                                          *)

\* the errors of a list that name the given field, in order
ErrorsOf(errors, field) == SelectSeq(errors, LAMBDA e : e.field = field)
\* the units of the ingredients whose unit is not in the list, in order
UnlistedUnits(ingredients, units) ==
    LET bad == SelectSeq(ingredients, LAMBDA ing : ing.unit \notin ToSet(units))
    IN  [k \in DOMAIN bad |-> bad[k].unit]

\* C11: normalize_recipe returns one unit error, naming the unit, for each
\* ingredient whose unit is not an element of lookups.units (one per
\* ingredient, duplicates not merged) and none for an ingredient whose unit
\* is an element; the unit errors come in ingredient order and before every
\* step and accessory error.
C11_UnitErrorPerUnlistedIngredient ==
    pc = "returned" =>
        LET errors == Val(result)
            unlisted == UnlistedUnits(Val(input).recipe.ingredients,
                                      Val(lookups).units)
            n == Len(unlisted)
        IN  /\ Len(errors) >= n
            /\ \A k \in 1..n :
                  errors[k] = NormalizationError("unit", unlisted[k])
            /\ \A k \in (n + 1)..Len(errors) : errors[k].field # "unit"

\* two ingredients carry the same unlisted unit, a step and an accessory are
\* rejected as well
C11_Witness ==
    /\ pc = "returned"
    /\ Len(Val(input).recipe.ingredients) = 2
    /\ Val(input).recipe.ingredients[1].unit = <<"cup">>
    /\ Val(input).recipe.ingredients[2].unit = <<"cup">>
    /\ <<"g">> \in ToSet(Val(lookups).units)
    /\ Len(ErrorsOf(Val(result), "unit")) = 2
    /\ ErrorsOf(Val(result), "working_mode") # <<>>
    /\ ErrorsOf(Val(result), "accessory") # <<>>

\* the three mode labels the pipeline supports
SupportedLabels == {MODE_DESCRIPTION, MODE_WEIGH, MODE_ADAPTED}
\* the modes of the steps that are not both listed and supported, in order
RejectedModes(steps, working_modes) ==
    LET bad == SelectSeq(steps, LAMBDA st :
                   ~(st.mode \in ToSet(working_modes)
                     /\ st.mode \in SupportedLabels))
    IN  [k \in DOMAIN bad |-> bad[k].mode]

\* C12: normalize_recipe accepts the mode of a step iff the mode is an
\* element of lookups.working_modes and one of the three supported labels:
\* the working_mode errors are, one per offending step and in step order,
\* those of the steps whose mode is unlisted or unsupported.
C12_ModeListedAndSupported ==
    pc = "returned" =>
        LET rejected == RejectedModes(Val(input).recipe.steps,
                                      Val(lookups).working_modes)
        IN  ErrorsOf(Val(result), "working_mode") =
                [k \in DOMAIN rejected |->
                    NormalizationError("working_mode", rejected[k])]

\* a listed mode outside the three labels and a supported label that the
\* lookups do not list are both rejected
C12_Witness ==
    /\ pc = "returned"
    /\ <<"Knead">> \in ToSet(Val(lookups).working_modes)
    /\ MODE_ADAPTED \notin ToSet(Val(lookups).working_modes)
    /\ Len(Val(input).recipe.steps) = 2
    /\ Val(input).recipe.steps[1].mode = MODE_ADAPTED
    /\ Val(input).recipe.steps[2].mode = <<"Knead">>
    /\ ErrorsOf(Val(result), "working_mode") =
           <<NormalizationError("working_mode", MODE_ADAPTED),
             NormalizationError("working_mode", <<"Knead">>)>>

-----------------------------------------------------------------------------
(* The lookup loader: C13 - C15.                                           *)

\* e is v without its leading and trailing whitespace
IsTrimOf(e, v) ==
    /\ e # <<>>
    /\ ~IsSpace(e[1])
    /\ ~IsSpace(e[Len(e)])
    /\ \E i \in 1..(Len(v) - Len(e) + 1) :
          /\ SubSeq(v, i, i + Len(e) - 1) = e
          /\ \A k \in (1..(i - 1)) \cup ((i + Len(e))..Len(v)) : IsSpace(v[k])
\* the values of the designated column that are present, non-empty and not
\* all whitespace
PresentValues(snap, c) ==
    LET rows == IF c.sheet \in DOMAIN snap THEN snap[c.sheet] ELSE <<>>
    IN  {Val(rows[i][c.header]) :
            i \in {j \in DOMAIN rows : /\ c.header \in DOMAIN rows[j]
                                       /\ ~IsNone(rows[j][c.header])
                                       /\ ~Blank(Val(rows[j][c.header]))}}

\* C13: each of the five lists load_lookups returns holds exactly the
\* trimmed forms of the values of the designated column that are present,
\* non-empty and not all whitespace; the list is strictly ascending (so it
\* has no duplicate, not even of values that differ by surrounding
\* whitespace only) and has no empty or padded entry.
C13_ListsAreTrimmedSortedSets ==
    pc = "loaded" =>
        \A k \in DOMAIN LookupCategories :
            LET c == LookupCategories[k]
                list == Val(lookups)[c.field]
                present == PresentValues(snapshot, c)
            IN  /\ \A v \in present :
                      \E i \in DOMAIN list : IsTrimOf(list[i], v)
                /\ \A i \in DOMAIN list :
                      \E v \in present : IsTrimOf(list[i], v)
                /\ \A i, j \in DOMAIN list : i < j => StrLess(list[i], list[j])

\* three present values, two of which differ by padding only, between a
\* blank and a null cell: two entries, sorted
C13_Witness ==
    /\ pc = "loaded"
    /\ UNITS_SHEET \in DOMAIN snapshot
    /\ Len(snapshot[UNITS_SHEET]) = 3
    /\ PresentValues(snapshot, LookupCategories[1])
           = {<<"g", "\t">>, <<"a", " ", "g">>, <<" ", "g">>}
    /\ Val(lookups).units = <<<<"a", " ", "g">>, <<"g">>>>
    /\ Val(lookups).labels = <<<<"cup">>, <<"ml">>>>

\* the sheet of the category is missing from the snapshot, or no row of it
\* holds the designated column
SheetOrColumnAbsent(snap, c) ==
    \/ c.sheet \notin DOMAIN snap
    \/ \A i \in DOMAIN snap[c.sheet] : c.header \notin DOMAIN snap[c.sheet][i]
\* the snapshot with the sheet of the category present and filled
WithSheet(snap, c) ==
    [s \in DOMAIN snap \cup {c.sheet} |->
        IF s = c.sheet THEN FixedRows(c.header) ELSE snap[s]]

\* C14: when a required sheet, or the designated column in every row of
\* it, is absent from the snapshot, load_lookups returns (it does not fail)
\* with an empty list for that category, and the other four lists are the
\* ones it returns when the sheet is there; normalization then fails closed:
\* with no units every recipe that has an ingredient gets a unit error, with
\* no working modes every recipe that has a step gets a working_mode error.
C14_AbsentSheetGivesEmptyListAndFailsClosed ==
    /\ pc \in {"loaded", "returned"} =>
          \A k \in DOMAIN LookupCategories :
              LET c == LookupCategories[k]
                  filled == load_lookups(WithSheet(snapshot, c))
              IN  SheetOrColumnAbsent(snapshot, c) =>
                      /\ Val(lookups)[c.field] = <<>>
                      /\ filled[c.field] # <<>>
                      /\ \A j \in DOMAIN LookupCategories \ {k} :
                            Val(lookups)[LookupCategories[j].field]
                                = filled[LookupCategories[j].field]
    /\ pc = "returned" =>
          LET recipe == Val(input).recipe
          IN  /\ (Val(lookups).units = <<>> /\ recipe.ingredients # <<>>)
                     => ErrorsOf(Val(result), "unit") # <<>>
              /\ (Val(lookups).working_modes = <<>> /\ recipe.steps # <<>>)
                     => ErrorsOf(Val(result), "working_mode") # <<>>

\* the unit sheet is there and no row of it has the unit column: the unit
\* list is empty, the mode list is not, and ingredients with the unit "g"
\* are rejected while the steps are accepted
C14_Witness ==
    /\ pc = "returned"
    /\ UNITS_SHEET \in DOMAIN snapshot
    /\ snapshot[UNITS_SHEET] # <<>>
    /\ SheetOrColumnAbsent(snapshot, LookupCategories[1])
    /\ Val(lookups).units = <<>>
    /\ Val(lookups).working_modes # <<>>
    /\ Len(Val(input).recipe.ingredients) = 2
    /\ \A i \in 1..2 : Val(input).recipe.ingredients[i].unit = <<"g">>
    /\ Len(ErrorsOf(Val(result), "unit")) = 2
    /\ Val(input).recipe.steps # <<>>
    /\ ErrorsOf(Val(result), "working_mode") = <<>>

-----------------------------------------------------------------------------
(* Completeness and the gaps of validation: C16 - C18.                     *)

\* the conditions of C16 on one step
EligibleStep(step, lkp) ==
    /\ step.mode \in ToSet(lkp.working_modes)
    /\ \/ /\ step.mode \in {MODE_DESCRIPTION, MODE_WEIGH}
          /\ ~AbsentOrBlank(step.description)
          /\ IsNone(step.temperature) /\ IsNone(step.speed)
          /\ IsNone(step.direction) /\ IsNone(step.minutes)
          /\ IsNone(step.seconds)
       \/ /\ step.mode = MODE_ADAPTED
          /\ AbsentOrBlank(step.description)
          /\ ~IsNone(step.speed)
          /\ ~IsNone(step.minutes) \/ ~IsNone(step.seconds)
\* the conditions of C16 on a recipe
Eligible(r, lkp) ==
    /\ r.meta.language = LANGUAGE_ES
    /\ r.meta.recipe_type = RECIPE_TYPE_ROBOT_COOKER
    /\ r.meta.recipe_no > 0
    /\ r.meta.servings > 0
    /\ ~Blank(r.meta.name)
    /\ r.ingredients # <<>>
    /\ \A i \in DOMAIN r.ingredients : r.ingredients[i].unit \in ToSet(lkp.units)
    /\ r.steps # <<>>
    /\ \A i \in DOMAIN r.steps : EligibleStep(r.steps[i], lkp)

\* an eligible recipe gets an empty result from each of the three functions
PassesEveryStage(r, lkp) ==
    Eligible(r, lkp) =>
        /\ validate_recipe(r) = <<>>
        /\ normalize_recipe(r, lkp, <<>>) = <<>>
        /\ validate_steps(r.steps) = <<>>
\* ingredient lists the functions are tried on
CandidateIngredients ==
    {<<>>, <<Ingredient(1, 1, <<"ml">>, <<"a">>)>>,
     <<AnIngredient, Ingredient(2, 1, <<"cup">>, <<"a">>)>>,
     <<AnIngredient, Ingredient(2, 1, <<"ml">>, <<"a">>)>>}
\* the three functions are tried on every meta of SchemaRecipes with each
\* of these ingredient lists and a fixed step, and on every step of
\* RuleSteps, alone and after a fixed step, with a fixed meta
EligiblePassEveryStage(lkp) ==
    /\ \A r \in SchemaRecipes, ings \in CandidateIngredients :
          PassesEveryStage(Recipe(r.meta, ings, <<AStep>>), lkp)
    /\ \A s \in RuleSteps, sts \in {<<>>, <<AStep>>} :
          PassesEveryStage(Recipe(GoodRecipe.meta, GoodRecipe.ingredients,
                                  Append(sts, s)), lkp)
\* the writer can process the template: the three sheets are there and
\* every entry can be read
Processable(t) ==
    /\ IsNone(WriterFailure(t))
    /\ \A i \in DOMAIN t.entries : t.entries[i].readable

\* C16: a recipe with the supported language and type, positive recipe_no
\* and servings, a non-blank name, at least one ingredient, every unit
\* listed, at least one step, every mode listed, and each step either
\* Description/Weigh with a non-blank description and no control or Adapted
\* Cooking with a blank or absent description, a speed and minutes or
\* seconds, gets an empty result from validate_recipe, normalize_recipe and
\* validate_steps (tried, once per snapshot, on the recipes of
\* EligiblePassEveryStage); a
\* batch of such recipes does not end in a validation failure and is handed
\* to the writer, and after the writer has been through a template it can
\* process the complete output file exists.
C16_EligibleBatchIsWritten ==
    /\ (pc = "load_lookups" /\ recipes = <<>>)
          => EligiblePassEveryStage(load_lookups(snapshot))
    /\ (~IsNone(lookups)
        /\ \A i \in DOMAIN recipes : Eligible(recipes[i], Val(lookups)))
          => /\ ~ValidationFailed
             /\ pc \in {"done", "raised"} => writerCalls = <<recipes>>
             /\ (pc \in {"done", "raised"} /\ Processable(Val(template)))
                   => /\ pc = "done"
                      /\ outFile.exists
                      /\ outFile.closed
                      /\ Len(outFile.entries) = Len(Val(template).entries)

\* two different eligible recipes, one of them with an Adapted Cooking
\* step, have been written
C16_Witness ==
    /\ pc = "done"
    /\ Len(recipes) = 2
    /\ recipes[1] # recipes[2]
    /\ \A i \in DOMAIN recipes : Eligible(recipes[i], Val(lookups))
    /\ \E k \in DOMAIN recipes[1].steps : recipes[1].steps[k].mode = MODE_ADAPTED
    /\ writerCalls = <<recipes>>
    /\ outFile.exists
    /\ Cardinality({s \in RuleSteps : EligibleStep(s, Val(lookups))}) > 20

\* C17: every ingredient of every recipe that run_pipeline hands to the
\* writer has a positive qty and a non-empty name (a batch with an
\* ingredient of qty <= 0 or with an empty name is rejected before anything
\* is written).
C17_WrittenIngredientsArePositiveAndNamed ==
    \A c \in DOMAIN writerCalls :
        \A i \in DOMAIN writerCalls[c] :
            \A k \in DOMAIN writerCalls[c][i].ingredients :
                /\ writerCalls[c][i].ingredients[k].qty > 0
                /\ writerCalls[c][i].ingredients[k].name # <<>>

\* the sheet `name` as the output file holds it / as the template holds it
SheetIn(entries, name) ==
    Val(entries[CHOOSE i \in DOMAIN entries :
                    entries[i].filename = Val(template).sheet_map[name]]
            .content.sheet)
OutSheet(name) == SheetIn(outFile.entries, name)
TemplateSheetOf(name) == SheetIn(Val(template).entries, name)
\* the rows of a sheet other than row 1
DataRows(sheet) ==
    IF IsNone(sheet.sheet_data) THEN <<>>
    ELSE SelectSeq(Val(sheet.sheet_data), LAMBDA row : row.r # Some(<<"1">>))
\* the column the writer puts the values of a header in: the one the header
\* row of the template's sheet names for it
ColumnFor(name, header) ==
    Get(header_map(TemplateSheetOf(name), Val(template).shared), header, <<>>)
HasColumn(name, header) == Truthy(ColumnFor(name, header))
\* the i-th data row of the written sheet `name` has, in the column of
\* `header`, one cell: a number cell with the decimal digits of n
HoldsNumber(name, header, i, n) ==
    LET row == DataRows(OutSheet(name))[i]
        ref == ColumnFor(name, header) \o Val(row.r)
    IN  /\ ~IsNone(row.r)
        /\ SelectSeq(row.cells, LAMBDA c : c.r = ref)
              = <<[r |-> ref, t |-> None, v |-> Some(IntStr(n)), is_t |-> None]>>
SharesRecipeNo ==
    \E i, j \in DOMAIN recipes :
        i < j /\ recipes[i].meta.recipe_no = recipes[j].meta.recipe_no

\* C18: uniqueness of recipe_no is not enforced.  A batch in which two
\* recipes share a recipe_no and every recipe passes the three stages does
\* not end in a validation failure and is handed to the writer; when the
\* writer returns, the recipe list sheet has one data row per recipe, and,
\* the template having a recipe-number column, the row of each recipe
\* carries that recipe's number, duplicated ones included.
C18_DuplicateRecipeNoIsWritten ==
    (~IsNone(lookups) /\ AllPass /\ SharesRecipeNo) =>
        /\ ~ValidationFailed
        /\ pc \in {"done", "raised"} => writerCalls = <<recipes>>
        /\ pc = "done" =>
              /\ Len(DataRows(OutSheet(RECIPE_LIST_SHEET))) = Len(recipes)
              /\ HasColumn(RECIPE_LIST_SHEET, <<"*Recipe NO">>)
                 => \A i \in DOMAIN recipes :
                       /\ DataRows(OutSheet(RECIPE_LIST_SHEET))[i].r
                             = Some(IntStr(i + 1))
                       /\ HoldsNumber(RECIPE_LIST_SHEET, <<"*Recipe NO">>, i,
                                      recipes[i].meta.recipe_no)

\* two different recipes with the number 1 are in rows 2 and 3 of the
\* recipe list sheet, each with the number 1
C18_Witness ==
    /\ pc = "done"
    /\ Len(recipes) = 2
    /\ recipes[1] # recipes[2]
    /\ recipes[1].meta.recipe_no = 1
    /\ recipes[2].meta.recipe_no = 1
    /\ HasColumn(RECIPE_LIST_SHEET, <<"*Recipe NO">>)
    /\ Len(DataRows(OutSheet(RECIPE_LIST_SHEET))) = 2
    /\ DataRows(OutSheet(RECIPE_LIST_SHEET))[1].r = Some(<<"2">>)
    /\ DataRows(OutSheet(RECIPE_LIST_SHEET))[2].r = Some(<<"3">>)
    /\ HoldsNumber(RECIPE_LIST_SHEET, <<"*Recipe NO">>, 1, 1)
    /\ HoldsNumber(RECIPE_LIST_SHEET, <<"*Recipe NO">>, 2, 1)

-----------------------------------------------------------------------------
(* The sheets of the written workbook: C19, C20                            *)

\* what each data row stands for, in the order of the batch and, within a
\* recipe, of its lists: the recipe number and the item's own number (for a
\* recipe, its servings)
RECURSIVE IngredientsInOrder(_)
IngredientsInOrder(rs) ==
    IF rs = <<>> THEN <<>>
    ELSE [k \in DOMAIN Head(rs).ingredients |->
             <<Head(rs).meta.recipe_no, Head(rs).ingredients[k].no>>]
         \o IngredientsInOrder(Tail(rs))
RECURSIVE StepsInOrder(_)
StepsInOrder(rs) ==
    IF rs = <<>> THEN <<>>
    ELSE [k \in DOMAIN Head(rs).steps |->
             <<Head(rs).meta.recipe_no, Head(rs).steps[k].no>>]
         \o StepsInOrder(Tail(rs))
ItemsInOrder(rs) ==
    <<[i \in DOMAIN rs |-> <<rs[i].meta.recipe_no, rs[i].meta.servings>>],
      IngredientsInOrder(rs), StepsInOrder(rs)>>
\* the two columns that hold those numbers in each target sheet
KeyHeaders ==
    <<<<(<<"*Recipe NO">>), (<<"*Servings">>)>>,
      <<(<<"*Recipe NO">>), (<<"*Ingredients No">>)>>,
      <<(<<"*Recipe NO">>), (<<"*Cooking Step NO">>)>>>>
\* the rows numbered 1 of a sheet
HeaderRows(sheet) ==
    IF IsNone(sheet.sheet_data) THEN <<>>
    ELSE SelectSeq(Val(sheet.sheet_data), LAMBDA row : row.r = Some(<<"1">>))
AllRows(sheet) ==
    IF IsNone(sheet.sheet_data) THEN <<>> ELSE Val(sheet.sheet_data)

\* C19: when write_recipes_to_template returns, each target sheet of the
\* written workbook has exactly one data row per recipe (recipe list), per
\* ingredient (ingredients) and per step (steps); the i-th of them, in the
\* order of the batch and of each recipe's lists, has row number i + 1 and,
\* in the columns the template's header row names, the numbers of the i-th
\* item; the rows numbered 1 are those of the template, ahead of the data
\* rows, and no data row of the template is left.
C19_OneRowPerItemFromRowTwo ==
    pc = "done" =>
        \A k \in DOMAIN TargetSheets :
            LET name == TargetSheets[k]
                out == OutSheet(name)
                items == ItemsInOrder(recipes)[k]
            IN  /\ Len(DataRows(out)) = Len(items)
                /\ \A i \in DOMAIN items :
                      /\ DataRows(out)[i].r = Some(IntStr(i + 1))
                      /\ \A c \in 1..2 :
                            HasColumn(name, KeyHeaders[k][c]) =>
                                HoldsNumber(name, KeyHeaders[k][c], i,
                                            items[i][c])
                /\ HeaderRows(out) = HeaderRows(TemplateSheetOf(name))
                /\ AllRows(out) = HeaderRows(out) \o DataRows(out)
                /\ \A j \in DOMAIN DataRows(TemplateSheetOf(name)) :
                      \A i \in DOMAIN AllRows(out) :
                          AllRows(out)[i] # DataRows(TemplateSheetOf(name))[j]

\* a batch of two recipes with three ingredients and two steps in all is
\* written over a template whose three sheets had two old data rows each:
\* the third ingredient, the first of the second recipe, is at row 4
C19_Witness ==
    /\ pc = "done"
    /\ recipes = <<ZeroQtyRecipe, WeighRecipe>>
    /\ \A k \in DOMAIN TargetSheets :
          Len(DataRows(TemplateSheetOf(TargetSheets[k]))) = 2
    /\ Len(DataRows(OutSheet(RECIPE_LIST_SHEET))) = 2
    /\ Len(DataRows(OutSheet(INGREDIENTS_SHEET))) = 3
    /\ Len(DataRows(OutSheet(STEPS_SHEET))) = 2
    /\ DataRows(OutSheet(INGREDIENTS_SHEET))[3].r = Some(<<"4">>)
    /\ HoldsNumber(INGREDIENTS_SHEET, <<"*Recipe NO">>, 3, 3)
    /\ HoldsNumber(INGREDIENTS_SHEET, <<"*Ingredients No">>, 2, 2)
    /\ HoldsNumber(STEPS_SHEET, <<"*Cooking Step NO">>, 2, 1)

\* the entries of the template that the writer does not replace
Untouched(t) ==
    {i \in DOMAIN t.entries : t.entries[i].filename \notin Replacements(t)}

\* C20: when write_recipes_to_template returns, the written package has
\* the entries of the template, name by name in the template's order, and
\* every entry other than the three target sheets has the content it has
\* in the template; from the moment the template is opened, no step of the
\* writer changes it.
C20_UntouchedContentIsPreserved ==
    /\ [](pc = "done" =>
            /\ [i \in DOMAIN outFile.entries |-> outFile.entries[i].filename]
                  = [i \in DOMAIN Val(template).entries |->
                        Val(template).entries[i].filename]
            /\ \A i \in Untouched(Val(template)) :
                  outFile.entries[i].content = Val(template).entries[i].content)
    /\ [][~IsNone(template) => template' = template]_vars

\* a batch of two recipes is written over the template that has shared
\* strings: the workbook part, its relationships, the styles, the unit
\* sheet and the shared strings are in the written package as they are in the template, and the
\* ingredient sheet is not
C20_Witness ==
    /\ pc = "done"
    /\ Len(recipes) = 2
    /\ Len(Val(template).entries) = 8
    /\ Cardinality(Untouched(Val(template))) = 5
    /\ \E i \in Untouched(Val(template)) :
          /\ Val(template).entries[i].filename = SheetPath(UNITS_SHEET)
          /\ ~IsNone(outFile.entries[i].content.sheet)
          /\ outFile.entries[i] =
                [filename |-> SheetPath(UNITS_SHEET),
                 content |-> Val(template).entries[i].content]
    /\ \E i \in DOMAIN outFile.entries :
          /\ outFile.entries[i].filename = SheetPath(INGREDIENTS_SHEET)
          /\ outFile.entries[i].content # Val(template).entries[i].content

-----------------------------------------------------------------------------
(* Relations between runs: C21 - C26                                       *)

\* the place of a rule among the errors one step can have
RuleRank(rule) ==
    IF rule \in {RULE_DESCRIPTION_REQUIRED, RULE_DESCRIPTION_EMPTY,
                 RULE_UNSUPPORTED} THEN 1
    ELSE IF rule \in {RULE_CONTROLS_EMPTY, RULE_TIME_REQUIRED} THEN 2
    ELSE 3
InRuleOrder(errors) ==
    \A p, q \in DOMAIN errors :
        p < q => RuleRank(errors[p].rule) < RuleRank(errors[q].rule)
RECURSIVE ErrorsStepByStep(_)
ErrorsStepByStep(steps) ==
    IF steps = <<>> THEN <<>>
    ELSE validate_steps(<<Head(steps)>>) \o ErrorsStepByStep(Tail(steps))

\* C21: validate_steps checks each step on its own and keeps the order of
\* the steps.  For every way of cutting the list it was called on into a
\* front part and a back part, its result is the result for the front part
\* followed by the result for the back part; hence it is the errors of the
\* single steps, one step after the other; and the errors of one step come
\* as description, then controls (or description, time, speed).
C21_ValidateStepsDistributesOverConcatenation ==
    pc = "returned" =>
        LET steps == Val(input)
        IN  /\ \A n \in 0..Len(steps) :
                  Val(result) =
                      validate_steps(SubSeq(steps, 1, n))
                      \o validate_steps(SubSeq(steps, n + 1, Len(steps)))
            /\ Val(result) = ErrorsStepByStep(steps)
            /\ \A i \in DOMAIN steps : InRuleOrder(validate_steps(<<steps[i]>>))

\* three steps, the one in the middle without errors between one with the
\* two errors of a description step and one with the three errors of an
\* adapted step: five errors, those of the first step first
C21_Witness ==
    /\ pc = "returned"
    /\ Val(input) = <<BlankDescriptionWithControl, GoodAdapted,
                      AdaptedNoTimeNoSpeed>>
    /\ Len(Val(result)) = 5
    /\ [i \in 1..5 |-> Val(result)[i].rule] =
          <<RULE_DESCRIPTION_REQUIRED, RULE_CONTROLS_EMPTY,
            RULE_DESCRIPTION_EMPTY, RULE_TIME_REQUIRED, RULE_SPEED_REQUIRED>>
    /\ [i \in 1..5 |-> Val(result)[i].step] = <<1, 1, 2, 2, 2>>

\* the orders a batch can be handed over in
PermutationsOf(list) ==
    {[i \in DOMAIN list |-> list[p[i]]] :
        p \in {f \in [DOMAIN list -> DOMAIN list] :
                  \A i, j \in DOMAIN list : f[i] = f[j] => i = j}}
\* the outcome run_pipeline has for the batch q under the lookups of the
\* snapshot, by what the three stages return for its recipes
EveryRecipePasses(q) == \A i \in DOMAIN q : Passes(q[i])
Stopped == pc \in {"done", "raised"}

\* C22: the outcome of run_pipeline does not depend on the order of the
\* batch.  A run ends either in the ValueError of a stage with the writer
\* never called, or with the writer called once, and which of the two is
\* fixed by the recipes of the batch under the snapshot's lookups, whatever
\* their order: for every permutation of the batch, the run ends in a
\* validation failure exactly when some recipe of the permutation fails a
\* stage, and calls the writer exactly when none does.  Every permutation
\* of a batch is a batch the run can start with, so the runs on two
\* permutations have the same outcome.
C22_OutcomeIsTheSameForEveryOrder ==
    /\ ValidationFailed => writerCalls = <<>>
    /\ writerCalls # <<>> => writerCalls = <<recipes>>
    /\ Stopped =>
          /\ PermutationsOf(recipes) \subseteq Batches
          /\ ValidationFailed \/ writerCalls = <<recipes>>
          /\ \A q \in PermutationsOf(recipes) :
                /\ ValidationFailed <=> ~EveryRecipePasses(q)
                /\ writerCalls = <<recipes>> <=> EveryRecipePasses(q)

\* a run on two recipes that fail different stages has stopped with the
\* error of the first recipe's stage; the other order of the batch has the
\* other recipe, and the other stage, to report
C22_Witness ==
    /\ ValidationFailed
    /\ Len(recipes) = 2
    /\ ~Passes(recipes[1])
    /\ ~Passes(recipes[2])
    /\ Val(raised).stage = FirstFailingStage(recipes[1])
    /\ FirstFailingStage(recipes[2]) # FirstFailingStage(recipes[1])
    /\ <<recipes[2], recipes[1]>> \in PermutationsOf(recipes)
    /\ <<recipes[2], recipes[1]>> # recipes

\* the accessories that are not in the list, in order
UnlistedAccessories(accessories, listed) ==
    SelectSeq(accessories, LAMBDA a : a \notin ToSet(listed))
\* the three stages find nothing in the recipe r under the lookups lkp
PassesUnder(r, lkp) ==
    /\ validate_recipe(r) = <<>>
    /\ normalize_recipe(r, lkp, <<>>) = <<>>
    /\ validate_steps(r.steps) = <<>>
\* what lookups.accessories may hold instead of what the snapshot gives
AccessoryLists == {<<>>, <<<<"Cuchilla">>>>, <<<<"INVALID">>>>}

\* C23: normalize_recipe returns one accessory error, naming the accessory,
\* for each accessory of the caller that is not an element of
\* lookups.accessories, in the caller's order, and none for one that is.
\* run_pipeline passes no accessory: the errors it reports hold no
\* accessory error, and with any other list in lookups.accessories (the
\* empty one of a missing sheet included) the run would have the same
\* outcome, a validation failure with the same errors or the call of the
\* writer.
C23_AccessoryErrorsOnlyForSuppliedAccessories ==
    /\ pc = "returned" =>
          LET unlisted == UnlistedAccessories(Val(input).accessories,
                                              Val(lookups).accessories)
          IN  ErrorsOf(Val(result), "accessory") =
                  [k \in DOMAIN unlisted |->
                      NormalizationError("accessory", unlisted[k])]
    /\ (ValidationFailed /\ Val(raised).stage = "Normalization errors") =>
          ErrorsOf(Val(raised).errors, "accessory") = <<>>
    /\ Stopped =>
          \A acc \in AccessoryLists :
              LET lkp == [load_lookups(snapshot) EXCEPT !.accessories = acc]
              IN  /\ writerCalls = <<recipes>> <=>
                        \A i \in DOMAIN recipes :
                            PassesUnder(recipes[i], lkp)
                  /\ ValidationFailed <=>
                        \E i \in DOMAIN recipes :
                            ~PassesUnder(recipes[i], lkp)
                  /\ (ValidationFailed
                      /\ Val(raised).stage = "Normalization errors") =>
                        Val(raised).errors =
                            normalize_recipe(recipes[idx], lkp, <<>>)

\* run_pipeline has written a batch under a snapshot without an accessory
\* sheet, where the normalizer rejects every accessory a caller names
C23_Witness ==
    /\ pc = "done"
    /\ Len(recipes) = 2
    /\ writerCalls = <<recipes>>
    /\ ACCESSORIES_SHEET \notin DOMAIN snapshot
    /\ Val(lookups).accessories = <<>>
    /\ normalize_recipe(recipes[1], Val(lookups), <<<<"Cuchilla">>>>)
          = <<NormalizationError("accessory", <<"Cuchilla">>)>>

\* a str with whitespace at its start or at its end
Padded(str) == str # <<>> /\ (IsSpace(str[1]) \/ IsSpace(str[Len(str)]))
\* the values the unit column of the snapshot holds, as they are stored
StoredUnits == PresentValues(snapshot, LookupCategories[1])

\* C24: a unit is looked up as it stands among the trimmed values of the
\* snapshot.  normalize_recipe accepts the unit of an ingredient exactly
\* when the unit is, character for character, the trimmed form of a value
\* stored in the unit column; so a unit that carries leading or trailing
\* whitespace gets a unit error, also when the column stores exactly that
\* padded value.
C24_UntrimmedUnitIsRejected ==
    pc = "returned" =>
        \A i \in DOMAIN Val(input).recipe.ingredients :
            LET unit == Val(input).recipe.ingredients[i].unit
                rejected == NormalizationError("unit", unit)
                                \in ToSet(Val(result))
            IN  /\ ~rejected <=> \E v \in StoredUnits : IsTrimOf(unit, v)
                /\ ~rejected <=> unit \in ToSet(Val(lookups).units)
                /\ Padded(unit) => rejected

\* the unit column stores " g" and "g"; of two ingredients, the one with
\* the unit " g" is rejected and the one with the unit "g" is accepted
C24_Witness ==
    /\ pc = "returned"
    /\ <<" ", "g">> \in StoredUnits
    /\ Val(lookups).units = <<<<"g">>, <<"ml">>>>
    /\ Len(Val(input).recipe.ingredients) = 2
    /\ Val(input).recipe.ingredients[1].unit = <<" ", "g">>
    /\ Val(input).recipe.ingredients[2].unit = <<"g">>
    /\ ErrorsOf(Val(result), "unit")
          = <<NormalizationError("unit", <<" ", "g">>)>>

\* the rule errors that name an unsupported working mode
Unsupported(errors) == SelectSeq(errors, LAMBDA e : e.rule = RULE_UNSUPPORTED)

\* C25: the closed mode set of the normalizer is the set of the three mode
\* constants of the rule validator.  Steps for which normalize_recipe has
\* no working_mode error get no 'unsupported working mode' error from
\* validate_steps, whatever the lookups; and in run_pipeline the steps that
\* reach validate_steps carry one of the three modes, so that no run ends
\* with an 'unsupported working mode' error.
C25_UnsupportedModeNeverReachesTheRules ==
    /\ ALLOWED_MODES = {MODE_DESCRIPTION, MODE_WEIGH, MODE_ADAPTED}
    /\ pc = "returned" =>
          (ErrorsOf(Val(result), "working_mode") = <<>>
              => Unsupported(validate_steps(Val(input).recipe.steps)) = <<>>)
    /\ pc = "validate_steps" =>
          /\ normalize_steps(recipes[idx].steps, Val(lookups)) = <<>>
          /\ \A k \in DOMAIN recipes[idx].steps :
                recipes[idx].steps[k].mode
                    \in {MODE_DESCRIPTION, MODE_WEIGH, MODE_ADAPTED}
          /\ Unsupported(validate_steps(recipes[idx].steps)) = <<>>
    /\ (ValidationFailed /\ Val(raised).stage = "Rule errors") =>
          Unsupported(Val(raised).errors) = <<>>

\* a run whose lookups list the mode "Knead" has stopped at the
\* normalization of a recipe with a step of that mode, for which
\* validate_steps has the 'unsupported working mode' error
C25_Witness ==
    /\ ValidationFailed
    /\ Val(raised).stage = "Normalization errors"
    /\ <<"Knead">> \in ToSet(Val(lookups).working_modes)
    /\ Val(raised).errors = <<NormalizationError("working_mode", <<"Knead">>)>>
    /\ Unsupported(validate_steps(recipes[idx].steps))
          = <<RuleError(recipes[idx].steps[1], RULE_UNSUPPORTED)>>

\* C26: an empty batch is valid.  run_pipeline on no recipes calls no
\* stage function, raises no validation failure and calls the writer once,
\* with the empty list; when the writer returns, each of the three target
\* sheets of the written workbook holds the rows numbered 1 of the template
\* sheet and nothing else, the data rows of the template being gone.
C26_EmptyBatchWritesHeadersOnly ==
    recipes = <<>> =>
        /\ ~ValidationFailed
        /\ \A p \in DOMAIN log :
              log[p].call \in {"load_lookups", "write_recipes_to_template"}
        /\ Stopped => writerCalls = <<(<<>>)>>
        /\ pc = "done" =>
              \A k \in DOMAIN TargetSheets :
                  /\ DataRows(OutSheet(TargetSheets[k])) = <<>>
                  /\ AllRows(OutSheet(TargetSheets[k]))
                        = HeaderRows(TemplateSheetOf(TargetSheets[k]))

\* the empty batch has been written over a template whose three sheets had
\* a header row and two data rows each: one row is left in each
C26_Witness ==
    /\ recipes = <<>>
    /\ pc = "done"
    /\ writerCalls = <<(<<>>)>>
    /\ \A k \in DOMAIN TargetSheets :
          /\ Len(AllRows(TemplateSheetOf(TargetSheets[k]))) = 3
          /\ Len(DataRows(TemplateSheetOf(TargetSheets[k]))) = 2
          /\ Len(AllRows(OutSheet(TargetSheets[k]))) = 1
          /\ AllRows(OutSheet(TargetSheets[k]))[1].r = Some(<<"1">>)

=============================================================================
